---- MODULE Spec2Model ----
(***************************************************************************)
(* A model of the SpectreProxy gateway: the dispatch and fallback          *)
(* controller (ShadowProxy, ProxyFactory, the transports' connect and      *)
(* handleDnsQuery), the header sanitizer, parseDestinationUrl, the         *)
(* WebSocket frame packer and the HTTP/1.1 response parser.                *)
(*                                                                         *)
(* Text is modelled as a sequence of tokens: a token is either a delimiter *)
(* (":", "/", "@", "[", "]", "?") or a run of characters that holds none.  *)
(* Splitting, joining, prefix and substring tests are computed on these    *)
(* sequences.  The bytes of a WebSocket frame are integers 0..255; the     *)
(* bytes of an HTTP response are tokens (CR, LF, characters).              *)
(*                                                                         *)
(* Four specifications share the variables: Spec (one request through the  *)
(* controller), SpecUrl (parseDestinationUrl), SpecFrame (packTextFrame)   *)
(* and SpecHttp (parseResponse over every segmentation of the upstream     *)
(* bytes).  Each leaves the variables of the others at their idle values.  *)
(***************************************************************************)
EXTENDS Integers, Sequences, FiniteSets, TLC

VARIABLES
  config,      \* the configuration bag of the request (ConfigManager.updateConfigFromEnv)
  req,         \* the inbound request: pathname, search, method, headers, body chunks
  pc,          \* where the handling of the request stands
  cur,         \* the transport attempt in progress: variant, role, destination, body it was given
  attempts,    \* every transport method invocation so far, in order
  events,      \* what went over upstream connections: socket opens, heads, fetches, replies
  bodyPos,     \* chunks of the body stream that the current attempt has read
  errs,        \* the errors caught so far, in order
  fallback,    \* the variant the fallback switch selected, "none" before it ran
  response,    \* the response returned to the client
  bodyStream,  \* the body stream of a response parseResponse returned: open, closed or errored
  urlCase,     \* parseDestinationUrl: the request path and query it is applied to
  dstUrl,      \* parseDestinationUrl: what it returned for both spellings of the scheme
  payload,     \* packTextFrame: the payload bytes
  packed,      \* packTextFrame: the frame returned, the mask drawn, the error thrown
  upstream,    \* parseResponse: the bytes the upstream socket supplies and how far it got
  parser,      \* parseResponse: the parser's locals and the body stream it feeds
  inbound,     \* SocketFramesReader: the bytes the upstream socket supplies and how far it got
  framesReader,\* SocketFramesReader: its fields, the position of nextFrame, what it returned
  outbound,    \* relayWebSocketFrames: the client's messages, the writes to upstream, the client's close
  socksCase,   \* socks5Connect: the destination, the credentials and the server's replies
  socks,       \* socks5Connect: its position, the bytes written to the stream, its outcome
  dotCase,     \* DoTProxy.handleDnsQuery: the query and the bytes the DoT server supplies
  dot,         \* DoTProxy.handleDnsQuery: its position, the write, the chunks read, the response
  heap,        \* the configuration objects alive: ConfigManager.DEFAULT_CONFIG first, then the copies
  tasks        \* the requests handled at the same time: environment, position, the objects each holds

ctlVars == <<config, req, pc, cur, attempts, events, bodyPos, errs, fallback, response, bodyStream>>
urlVars == <<urlCase, dstUrl>>
frameVars == <<payload, packed>>
httpVars == <<upstream, parser>>
readerVars == <<inbound, framesReader, outbound>>
socksVars == <<socksCase, socks>>
dotVars == <<dotCase, dot>>
wireVars == <<readerVars, socksVars, dotVars>>
isoVars == <<heap, tasks>>

vars == <<ctlVars, urlVars, frameVars, httpVars, wireVars, isoVars>>

---------------------------------------------------------------------------
(* Bounds *)

\* the longest request body, in stream chunks
MaxBodyChunks == 2

---------------------------------------------------------------------------
(* Text helpers *)

RECURSIVE Split(_, _)
\* String.prototype.split(d): the pieces between the delimiter tokens
Split(s, d) ==
  IF s = <<>> THEN << <<>> >>
  ELSE IF Head(s) = d THEN << <<>> >> \o Split(Tail(s), d)
  ELSE LET r == Split(Tail(s), d) IN << <<Head(s)>> \o Head(r) >> \o Tail(r)

RECURSIVE Join(_, _)
\* Array.prototype.join(d)
Join(parts, d) ==
  IF parts = <<>> THEN <<>>
  ELSE IF Len(parts) = 1 THEN parts[1]
  ELSE parts[1] \o <<d>> \o Join(Tail(parts), d)

\* String.prototype.includes(sub): sub occurs as a contiguous run of s
Includes(s, sub) ==
  \E i \in 0..(Len(s) - Len(sub)) : SubSeq(s, i + 1, i + Len(sub)) = sub

\* String.prototype.endsWith(t) for a one-token suffix
EndsWith(s, t) == Len(s) > 0 /\ s[Len(s)] = t

\* Array.prototype.filter(Boolean) on strings: the empty string is falsy
FilterBoolean(parts) == SelectSeq(parts, LAMBDA p : p # <<>>)

\* String.prototype.toLowerCase on the strategy names and the error contexts
ToLowerCase(s) ==
  CASE s = "SOCKS5" -> "socks5"
    [] s = "DoH" -> "doh"
    [] s = "Socket connection" -> "socket connection"
    [] s = "SOCKS5 connection" -> "socks5 connection"
    [] s = "Fetch connection" -> "fetch connection"
    [] s = "Fetch DNS query handling" -> "fetch dns query handling"
    [] s = "Third party proxy connection" -> "third party proxy connection"
    [] s = "Cloud provider proxy connection" -> "cloud provider proxy connection"
    [] s = "DoT and subsequent DoH fallback" -> "dot and subsequent doh fallback"
    [] OTHER -> s

---------------------------------------------------------------------------
(* Configuration *)

AUTH_TOKEN == <<"tok">>
DEFAULT_DST_URL == <<"https", ":", "/", "/", "httpbin.org", "/", "get">>
DOH_SERVER == <<"https", ":", "/", "/", "dns.google", "/", "dns-query">>

Socks5Ok == <<"u", ":", "p", "@", "proxy", ":", "1080">>
Socks5BadPort == <<"proxy", ":", "x">>
ProxyUrlOk == <<"https", ":", "/", "/", "relay.example", "/", "fn">>
ProxyUrlBad == <<"relay.example">>

\* ConfigManager.DEFAULT_CONFIG, the keys the controller and the transports read
DEFAULT_CONFIG ==
  [ AUTH_TOKEN |-> AUTH_TOKEN,
    DEFAULT_DST_URL |-> DEFAULT_DST_URL,
    PROXY_STRATEGY |-> "socket",
    FALLBACK_PROXY_STRATEGY |-> "fetch",
    SOCKS5_ADDRESS |-> <<>>,
    THIRD_PARTY_PROXY_URL |-> <<>>,
    CLOUD_PROVIDER_URL |-> <<>> ]

Strategies == {"socket", "fetch", "socks5", "thirdparty", "cloudprovider", "doh", "dot"}

\* the digits of a port
Digits == {"0", "80", "443", "1080", "8080"}

\* Number(s) is not NaN: the empty string is 0, digits are a number
IsNumber(s) == s = <<>> \/ (Len(s) = 1 /\ s[1] \in Digits)

\* Socks5Proxy.parseSocks5Address: does it throw 'Invalid SOCKS address format'
ParseSocks5AddressThrows(address) ==
  LET parts == Split(address, "@")
      latter == parts[Len(parts)]
      former == IF Len(parts) >= 2 THEN parts[Len(parts) - 1] ELSE <<>>
      latters == Split(latter, ":")
      port == latters[Len(latters)]
      hostname == Join(SubSeq(latters, 1, Len(latters) - 1), ":")
  IN \/ (former # <<>> /\ Len(Split(former, ":")) # 2)
     \/ ~IsNumber(port)
     \/ (Includes(hostname, <<":">>)
          /\ ~(Len(hostname) >= 2 /\ hostname[1] = "[" /\ hostname[Len(hostname)] = "]"))

---------------------------------------------------------------------------
(* Headers *)

\* Headers normalises a header name to lower case
LowerTok(t) ==
  CASE t = "Host" -> "host"
    [] t = "Connection" -> "connection"
    [] t = "Upgrade" -> "upgrade"
    [] t = "Content-Type" -> "content-type"
    [] t = "Content-Length" -> "content-length"
    [] t = "Transfer-Encoding" -> "transfer-encoding"
    [] t = "Accept" -> "accept"
    [] t = "Sec-WebSocket-Version" -> "sec-websocket-version"
    [] t = "Sec-WebSocket-Key" -> "sec-websocket-key"
    [] OTHER -> t

LowerName(k) == [i \in 1..Len(k) |-> LowerTok(k[i])]

\* Headers.prototype.set(k, v): one entry per lower-cased name
HeadersSet(h, k, v) ==
  {x \in h : x.k # LowerName(k)} \cup {[k |-> LowerName(k), v |-> v]}

\* Headers.prototype.get(k): the value, or <<>> when the header is absent
HeadersGet(h, k) ==
  IF \E x \in h : x.k = LowerName(k)
  THEN (CHOOSE x \in h : x.k = LowerName(k)).v
  ELSE <<>>

\* the alternatives of HEADER_FILTER_RE, each one token
HEADER_FILTER_PREFIXES == {"host", "accept-encoding", "cf-", "cdn-", "referer", "referrer"}

\* HEADER_FILTER_RE.test(k): /^(host|accept-encoding|cf-|cdn-|referer|referrer)/i
HeaderFilterTest(k) == Len(k) > 0 /\ LowerTok(k[1]) \in HEADER_FILTER_PREFIXES

\* a filter that forgets the cf- and cdn- prefixes
FilterHeadersKeepsCf(headers) ==
  {x \in headers : ~(Len(x.k) > 0 /\ LowerTok(x.k[1]) \in {"host", "accept-encoding", "referer", "referrer"})}

\* BaseProxy.filterHeaders
FilterHeaders(headers) == {x \in headers : ~HeaderFilterTest(x.k)}

In == <<"in">>
Hdr(k, v) == [k |-> k, v |-> v]

HeadersPlain ==
  { Hdr(<<"host">>, In), Hdr(<<"accept-encoding">>, In), Hdr(<<"cf-", "ray">>, In),
    Hdr(<<"cdn-", "loop">>, In), Hdr(<<"referer">>, In), Hdr(<<"referrer">>, In),
    Hdr(<<"host", "name">>, In), Hdr(<<"x-", "cf-", "id">>, In), Hdr(<<"user-agent">>, In) }

HeadersDns ==
  { Hdr(<<"host">>, In), Hdr(<<"content-type">>, <<"application/dns-message">>),
    Hdr(<<"cf-", "connecting-ip">>, In), Hdr(<<"accept">>, In) }

HeadersWs ==
  { Hdr(<<"host">>, In), Hdr(<<"upgrade">>, <<"websocket">>), Hdr(<<"connection">>, In),
    Hdr(<<"cf-", "ray">>, In), Hdr(<<"user-agent">>, In) }

HeaderCases == {HeadersPlain, HeadersDns, HeadersWs}

\* req.headers.get("Upgrade")?.toLowerCase() === "websocket"
IsWebSocket(r) == HeadersGet(r.headers, <<"Upgrade">>) = <<"websocket">>

\* a gate that looks at the method only
DnsGateMethodOnly(r) == r.method = "POST"

\* the gate of DoHProxy.handleDnsQuery and DoTProxy.handleDnsQuery
DnsGate(r) ==
  r.method = "POST" /\ HeadersGet(r.headers, <<"content-type">>) = <<"application/dns-message">>

---------------------------------------------------------------------------
(* URLs *)

Delims == {":", "/", "@", "[", "]", "?"}

\* new URL(u): throws unless u is scheme://host...; the parts the transports read
ParseUrl(u) ==
  LET ok == /\ Len(u) >= 5
            /\ u[1] \notin Delims /\ u[2] = ":" /\ u[3] = "/" /\ u[4] = "/"
            /\ u[5] \notin Delims
  IN [ ok |-> ok,
       protocol |-> IF ok THEN <<u[1], ":">> ELSE <<>>,
       hostname |-> IF ok THEN <<u[5]>> ELSE <<>>,
       port |-> IF ok /\ Len(u) >= 7 /\ u[6] = ":" /\ u[7] \in Digits THEN <<u[7]>> ELSE <<>> ]

\* url.pathname.split("/").filter(Boolean)
PathParts(r) == FilterBoolean(Split(r.pathname, "/"))

\* a parser that requires the colon-free form of the scheme segment
ParseDestinationUrlNoColon(r, cfg) ==
  LET parts == PathParts(r)
      isValid == Len(parts) >= 1 /\ parts[1] = cfg.AUTH_TOKEN
  IN IF isValid /\ Len(parts) >= 2
     THEN parts[2] \o <<":", "/", "/">> \o Join(SubSeq(parts, 3, Len(parts)), "/") \o r.search
     ELSE cfg.DEFAULT_DST_URL

\* ShadowProxy.parseDestinationUrl
ParseDestinationUrl(r, cfg) ==
  LET parts == PathParts(r)
      isValid == Len(parts) >= 1 /\ parts[1] = cfg.AUTH_TOKEN
      protocol == parts[2]
      path == SubSeq(parts, 3, Len(parts))
  IN IF isValid /\ Len(parts) >= 2
     THEN IF EndsWith(protocol, ":")
          THEN protocol \o <<"/", "/">> \o Join(path, "/") \o r.search
          ELSE protocol \o <<":", "/", "/">> \o Join(path, "/") \o r.search
     ELSE cfg.DEFAULT_DST_URL

---------------------------------------------------------------------------
(* Errors and responses *)

\* the substrings SocketProxy.isCloudflareNetworkError looks for
NETWORK_ERROR_SUBSTRINGS ==
  { <<"A network issue was detected">>, <<"Network connection failure">>,
    <<"connection failed">>, <<"timed out">>, <<"Stream was cancelled">>,
    <<"proxy request failed">>, <<"cannot connect to the specified address">>,
    <<"TCP Loop detected">>, <<"Connections to port 25 are prohibited">> }

\* an error with a message; has is the truthiness of error.message
Error(text) == [thrown |-> TRUE, has |-> text # <<>>, undef |-> FALSE, text |-> text]
\* a thrown value without a message property
ErrorNoMessage == [thrown |-> TRUE, has |-> FALSE, undef |-> TRUE, text |-> <<>>]
NoError == [thrown |-> FALSE, has |-> FALSE, undef |-> FALSE, text |-> <<>>]

\* messages of the errors a socket operation or a fetch can throw
ErrorMessages ==
  NETWORK_ERROR_SUBSTRINGS \cup
  { <<"Re", "connection failed", ": retry later">>,
    <<"Connection Failed">>, <<"Unable to parse response headers">>,
    <<"Invalid status line: ", "HTTP/2 200">>, <<>> }

Errors == {Error(m) : m \in ErrorMessages} \cup {ErrorNoMessage}

\* the errors drawn at an await of a transport: every message where the catch
\* classifies it (the Socket transport), three of them where it does not
ErrorsAt(kind) ==
  IF kind = "Socket" THEN Errors
  ELSE {Error(<<"cannot connect to the specified address">>),
        Error(<<"Connection Failed">>), ErrorNoMessage}

\* `${error.message}` in a template string
MessageText(e) == IF e.undef THEN <<"undefined">> ELSE e.text

\* a classifier that misses the last substring of the list
IsCloudflareNetworkErrorShort(e) ==
  e.has /\ \E sub \in NETWORK_ERROR_SUBSTRINGS \ {<<"Connections to port 25 are prohibited">>} :
             Includes(e.text, sub)

\* SocketProxy.isCloudflareNetworkError
IsCloudflareNetworkError(e) ==
  e.has /\ \E sub \in NETWORK_ERROR_SUBSTRINGS : Includes(e.text, sub)

NoResponse == [status |-> 0, by |-> "none", via |-> "none", text |-> <<>>]

\* no response of parseResponse yet, hence no body stream
NoStream == [state |-> "none", error |-> NoError]

\* BaseProxy.handleError: `Error ${context.toLowerCase()}: ${error.message}`
HandleError(e, context, status, role) ==
  [status |-> status, by |-> context, via |-> role,
   text |-> <<"Error ", ToLowerCase(context), ": ">> \o MessageText(e)]

\* a catch that answers with the bare message and 502
ControllerErrorBadGateway(e) ==
  [status |-> 502, by |-> "controller", via |-> "none", text |-> MessageText(e)]

\* the catch of ShadowProxy.handleRequest: `Error: ${error.message}`, status 500
ControllerError(e) ==
  [status |-> 500, by |-> "controller", via |-> "none", text |-> <<"Error: ">> \o MessageText(e)]

\* a Response built by a transport itself
Reply(status, kind, role) == [status |-> status, by |-> kind, via |-> role, text |-> <<>>]

\* the upstream's response, handed back by the attempt of the given role
Upstream(status, role) == [status |-> status, by |-> "upstream", via |-> role, text |-> <<>>]

InvalidUrl == Error(<<"Invalid URL">>)
InvalidSocks == Error(<<"Invalid SOCKS address format">>)

---------------------------------------------------------------------------
(* Transport selection *)

\* the variant ProxyFactory.createProxy constructs
CreateProxy(cfg) ==
  LET strategy == IF cfg.PROXY_STRATEGY = "" THEN "socket" ELSE cfg.PROXY_STRATEGY
      s == ToLowerCase(strategy)
  IN CASE s = "socket" -> "Socket"
       [] s = "fetch" -> "Fetch"
       [] s = "socks5" -> "Socks5"
       [] s = "thirdparty" -> "ThirdParty"
       [] s = "cloudprovider" -> "CloudProvider"
       [] s = "doh" -> "DoH"
       [] s = "dot" -> "DoT"
       [] OTHER -> "Socket"

\* a fallback switch that honours every strategy name, as the factory does
FallbackProxyAsFactory(cfg) ==
  CreateProxy([cfg EXCEPT !.PROXY_STRATEGY =
                 IF cfg.FALLBACK_PROXY_STRATEGY = "" THEN "fetch" ELSE cfg.FALLBACK_PROXY_STRATEGY])

\* the variant the switch of SocketProxy.connectHttp constructs as fallback
FallbackProxy(cfg) ==
  LET fallbackStrategy ==
        IF cfg.FALLBACK_PROXY_STRATEGY = "" THEN "fetch" ELSE cfg.FALLBACK_PROXY_STRATEGY
      s == ToLowerCase(fallbackStrategy)
  IN CASE s = "fetch" -> "Fetch"
       [] s = "socks5" -> "Socks5"
       [] s = "thirdparty" -> "ThirdParty"
       [] s = "cloudprovider" -> "CloudProvider"
       [] OTHER -> "Fetch"

\* the constructor of the variant throws: Socks5Proxy parses SOCKS5_ADDRESS
ConstructorThrows(kind, cfg) ==
  kind = "Socks5" /\ ParseSocks5AddressThrows(cfg.SOCKS5_ADDRESS)

---------------------------------------------------------------------------
(* Requests and configurations the controller is run on *)

Path(parts) == <<"/">> \o Join(parts, "/")

PathCases ==
  { <<"/">>,
    Path(<< <<"tok">> >>),
    Path(<< <<"tok">>, <<"https">>, <<"example.com">>, <<"a">> >>),
    Path(<< <<"tok">>, <<"https", ":">>, <<>>, <<"example.com">>, <<"a">>, <<>> >>),
    Path(<< <<"tok">>, <<"http">>, <<"example.com", ":", "8080">> >>),
    Path(<< <<"tok">>, <<"wss">>, <<"echo.example">> >>),
    Path(<< <<"tok">>, <<"https">> >>),
    Path(<< <<"bad">>, <<"https">>, <<"example.com">>, <<"a">> >>),
    Path(<< <<"tok">>, <<"dns">>, <<"doh">> >>),
    Path(<< <<"tok">>, <<"dns">>, <<"dot">>, <<"1.1.1.1">> >>),
    Path(<< <<"tok">>, <<"dns">>, <<"other">> >>),
    Path(<< <<"bad">>, <<"dns">>, <<"doh">> >>) }

\* a request body: no body (GET), or a stream of 1..MaxBodyChunks chunks; a
\* WebSocket upgrade request has none
BodyCases == {[i \in 1..n |-> i] : n \in 0..MaxBodyChunks}

Requests ==
  LET with(h, bodies) ==
        { [pathname |-> p, search |-> q, method |-> IF b = <<>> THEN "GET" ELSE "POST",
           headers |-> h, body |-> b] :
            p \in PathCases, q \in {<<"?", "q=1">>}, b \in bodies }
  IN with(HeadersPlain, BodyCases) \cup with(HeadersDns, BodyCases)
       \cup with(HeadersWs, {<<>>})

\* configurations: a key the selected strategies never read keeps its default
Configs ==
  LET pick(s, f, a, t, c) ==
        [DEFAULT_CONFIG EXCEPT !.PROXY_STRATEGY = s, !.FALLBACK_PROXY_STRATEGY = f,
                               !.SOCKS5_ADDRESS = a, !.THIRD_PARTY_PROXY_URL = t,
                               !.CLOUD_PROVIDER_URL = c]
      urls == {<<>>, ProxyUrlOk, ProxyUrlBad}
      addrs == {Socks5Ok, Socks5BadPort}
  IN {pick(s, "fetch", <<>>, <<>>, <<>>) : s \in (Strategies \cup {"", "DoH"})}
     \cup {pick("socks5", "fetch", a, <<>>, <<>>) : a \in addrs}
     \cup {pick("thirdparty", "fetch", <<>>, u, <<>>) : u \in urls}
     \cup {pick("cloudprovider", "fetch", <<>>, <<>>, u) : u \in urls}
     \cup {pick("socket", f, <<>>, <<>>, <<>>) : f \in (Strategies \cup {""})}
     \cup {pick("socket", f, a, <<>>, <<>>) : f \in {"socks5", "SOCKS5"}, a \in addrs}
     \cup {pick("socket", "thirdparty", <<>>, u, <<>>) : u \in urls}
     \cup {pick("socket", "cloudprovider", <<>>, <<>>, u) : u \in urls}

---------------------------------------------------------------------------
(* The synchronous start of each transport method: up to its first await *)

NoAttempt == [proxy |-> "none", role |-> "none", dst |-> <<>>, body |-> <<>>]

Goto(l, ev) == [pc |-> l, resp |-> NoResponse, thrown |-> NoError, ev |-> ev]
Done(resp) == [pc |-> "done", resp |-> resp, thrown |-> NoError, ev |-> {}]
Throw(e) == [pc |-> "done", resp |-> NoResponse, thrown |-> e, ev |-> {}]

Event(kind, role, op, to, headers, body) ==
  [by |-> kind, role |-> role, op |-> op, to |-> to, headers |-> headers, body |-> body]

\* SocketProxy.connectHttp and Socks5Proxy.connectHttp: the head they write upstream
HttpHeaders(r, dst) ==
  HeadersSet(HeadersSet(FilterHeaders(r.headers), <<"Host">>, ParseUrl(dst).hostname),
             <<"accept-encoding">>, <<"identity">>)

\* FetchProxy.connectHttp
FetchHeaders(r, dst) == HeadersSet(FilterHeaders(r.headers), <<"Host">>, ParseUrl(dst).hostname)

\* the handshake head of connectWebSocket
WebSocketHeaders(r, dst) ==
  HeadersSet(HeadersSet(HeadersSet(HeadersSet(HeadersSet(FilterHeaders(r.headers),
    <<"Host">>, ParseUrl(dst).hostname),
    <<"Connection">>, <<"Upgrade">>),
    <<"Upgrade">>, <<"websocket">>),
    <<"Sec-WebSocket-Version">>, <<"13">>),
    <<"Sec-WebSocket-Key">>, <<"key">>)

\* FetchProxy.handleDnsQuery
FetchDnsHeaders(r) ==
  HeadersSet(HeadersSet(HeadersSet(FilterHeaders(r.headers),
    <<"Host">>, ParseUrl(DOH_SERVER).hostname),
    <<"Content-Type">>, <<"application/dns-message">>),
    <<"Accept">>, <<"application/dns-message">>)

\* DoHProxy.handleDnsQuery
DoHHeaders(r) ==
  HeadersSet(HeadersSet(HeadersSet(HeadersSet(HeadersSet(FilterHeaders(r.headers),
    <<"Host">>, ParseUrl(DOH_SERVER).hostname),
    <<"Content-Type">>, <<"application/dns-message">>),
    <<"Content-Length">>, <<"len">>),
    <<"Accept">>, <<"application/dns-message">>),
    <<"Connection">>, <<"close">>)

\* the fresh header set of the DoT transport's DoH fallback
DoTFallbackHeaders ==
  HeadersSet(HeadersSet(HeadersSet({},
    <<"Host">>, ParseUrl(DOH_SERVER).hostname),
    <<"Content-Type">>, <<"application/dns-message">>),
    <<"Accept">>, <<"application/dns-message">>)

\* ThirdPartyProxy.connectHttp and CloudProviderProxy.connectHttp
RelayHttp(kind, role, r, body, dst, proxyUrl, context) ==
  IF proxyUrl = <<>>
  THEN Done(HandleError(Error(IF kind = "ThirdParty"
                                THEN <<"Third party proxy URL is not configured">>
                                ELSE <<"Cloud provider URL is not configured">>),
                          context, 500, role))
  ELSE IF ~ParseUrl(proxyUrl).ok THEN Throw(InvalidUrl)
  ELSE Goto("fetch_wait",
            {Event(kind, role, "fetch", proxyUrl \o <<"?", "target=">> \o dst, r.headers, body)})

\* handleDnsQuery without the override of SocketProxy
EntryDnsNoSocketOverride(kind, role, r, body) ==
  CASE kind \in {"DoH", "DoT"} ->
         IF ~DnsGate(r) THEN Done(Reply(400, kind, role)) ELSE Goto("dns_body", {})
    [] kind = "Fetch" ->
         Goto("fetchdns_wait", {Event(kind, role, "fetch", DOH_SERVER, FetchDnsHeaders(r), body)})
    [] OTHER -> Done(Reply(501, kind, role))

\* handleDnsQuery of each variant
EntryDns(kind, role, r, body) ==
  CASE kind \in {"DoH", "DoT"} ->
         IF ~DnsGate(r) THEN Done(Reply(400, kind, role)) ELSE Goto("dns_body", {})
    [] kind = "Socket" -> Done(Reply(400, kind, role))
    [] kind = "Fetch" ->
         Goto("fetchdns_wait", {Event(kind, role, "fetch", DOH_SERVER, FetchDnsHeaders(r), body)})
    [] OTHER -> Done(Reply(501, kind, role))

\* connectHttp of each variant
EntryHttp(kind, role, r, body, dst, cfg) ==
  CASE kind \in {"Socket", "Socks5"} ->
         IF ~ParseUrl(dst).ok THEN Throw(InvalidUrl) ELSE Goto("sock_connect", {})
    [] kind = "Fetch" ->
         IF ~ParseUrl(dst).ok THEN Throw(InvalidUrl)
         ELSE Goto("fetch_wait", {Event(kind, role, "fetch", dst, FetchHeaders(r, dst), body)})
    [] kind = "ThirdParty" ->
         RelayHttp(kind, role, r, body, dst, cfg.THIRD_PARTY_PROXY_URL, "Third party proxy connection")
    [] kind = "CloudProvider" ->
         RelayHttp(kind, role, r, body, dst, cfg.CLOUD_PROVIDER_URL, "Cloud provider proxy connection")
    [] OTHER -> EntryDns(kind, role, r, body)

\* connectWebSocket of the Socket and Socks5 variants
EntryWebSocket(kind, role, r, dst) ==
  IF ~ParseUrl(dst).ok THEN Throw(InvalidUrl)
  ELSE IF dst[1] \notin {"ws", "wss"} THEN Done(Reply(400, kind, role))
  ELSE Goto("ws_connect", {})

\* connect of each variant
EntryConnect(kind, role, r, body, dst, cfg) ==
  CASE kind \in {"DoH", "DoT"} -> EntryDns(kind, role, r, body)
    [] kind \in {"Socket", "Socks5"} ->
         IF IsWebSocket(r) THEN EntryWebSocket(kind, role, r, dst)
         ELSE EntryHttp(kind, role, r, body, dst, cfg)
    [] OTHER ->
         IF IsWebSocket(r) THEN Done(Reply(400, kind, role))
         ELSE EntryHttp(kind, role, r, body, dst, cfg)

---------------------------------------------------------------------------
(* The controller and the transports, one action per step between awaits *)

\* what an entry operator decided: a response, an exception that reaches the
\* catch of handleRequest, or the await the method now waits at
Apply(out) ==
  /\ pc' = IF out.thrown.thrown \/ out.resp # NoResponse THEN "done" ELSE out.pc
  /\ response' = IF out.thrown.thrown THEN ControllerError(out.thrown) ELSE out.resp
  /\ events' = events \cup out.ev

\* readBefore: chunks of the inbound body stream already consumed when the
\* method is invoked
Invocation(kind, method, role, dst, body, readBefore) ==
  [proxy |-> kind, method |-> method, role |-> role, dst |-> dst, body |-> body,
   readBefore |-> readBefore]

\* a fallback that is handed the request whose body the first attempt was reading
FallbackRequestBodyNoClone(body, pos) == SubSeq(body, pos + 1, Len(body))

\* the body of reqForFallback = req.clone(): the clone's stream is independent
\* of the chunks read from req.body
FallbackRequestBody(body, pos) == body

\* handleRequest: the path is a DNS request of an authenticated client
IsDnsRequest(parts, cfg) ==
  Len(parts) >= 3 /\ parts[2] = <<"dns">> /\ parts[1] = cfg.AUTH_TOKEN

\* a controller that keeps the configured strategy for DNS requests
DnsStrategyNoOverride(dnsType, cfg) == cfg.PROXY_STRATEGY

\* handleRequest: the strategy a DNS request of type dnsType runs under
DnsStrategy(dnsType, cfg) ==
  IF dnsType = <<"doh">> THEN "doh"
  ELSE IF dnsType = <<"dot">> THEN "dot"
  ELSE cfg.PROXY_STRATEGY

\* ShadowProxy.handleRequest, up to the first await of the method it calls
HandleRequest ==
  /\ pc = "start"
  /\ LET parts == PathParts(req)
         isDns == IsDnsRequest(parts, config)
         proxyStrategy == IF isDns THEN DnsStrategy(parts[3], config) ELSE config.PROXY_STRATEGY
         cfg == [config EXCEPT !.PROXY_STRATEGY = proxyStrategy]
         kind == CreateProxy(cfg)
         dst == IF isDns THEN <<>> ELSE ParseDestinationUrl(req, config)
     IN IF ConstructorThrows(kind, cfg)
        THEN /\ pc' = "done"
             /\ response' = ControllerError(InvalidSocks)
             /\ UNCHANGED <<cur, attempts, events>>
        ELSE /\ cur' = [proxy |-> kind, role |-> "primary", dst |-> dst, body |-> req.body]
             /\ attempts' = Append(attempts,
                  Invocation(kind, IF isDns THEN "handleDnsQuery" ELSE "connect",
                             "primary", dst, req.body, 0))
             /\ Apply(IF isDns THEN EntryDns(kind, "primary", req, req.body)
                      ELSE EntryConnect(kind, "primary", req, req.body, dst, config))
  /\ UNCHANGED <<bodyStream, config, req, bodyPos, errs, fallback>>
  /\ UNCHANGED <<urlVars, frameVars, httpVars, wireVars, isoVars>>

\* an awaited operation throws e: the catch of connectHttp takes over
Fail(e) ==
  /\ errs' = Append(errs, e)
  /\ pc' = "sock_catch"

\* the socket a raw-stream path asks for.  SocketProxy.connectHttp takes the
\* port from the scheme alone; SocketProxy.connectWebSocket and both paths of
\* Socks5Proxy take targetUrl.port when there is one.  The Socks5 socket is
\* opened to the SOCKS server without options; port is the one of its
\* CONNECT request.
ConnectEvent(kind, role, ws, dst) ==
  LET targetUrl == ParseUrl(dst)
      isSecure == targetUrl.protocol = (IF ws THEN <<"wss", ":">> ELSE <<"https", ":">>)
      byScheme == IF isSecure THEN "443" ELSE "80"
      port == IF kind = "Socket" /\ ~ws THEN byScheme
              ELSE IF targetUrl.port # <<>> THEN targetUrl.port[1] ELSE byScheme
      secureTransport == IF kind = "Socket" /\ isSecure THEN "on" ELSE "off"
  IN Event(kind, role, "connect", targetUrl.hostname, {}, <<>>)
       @@ [port |-> port, secureTransport |-> secureTransport]

\* await connect(...) of SocketProxy.connectHttp, socks5Connect of Socks5Proxy.connectHttp
SocketConnect ==
  /\ pc = "sock_connect"
  /\ \/ /\ pc' = "sock_head"
        /\ events' = events \cup {ConnectEvent(cur.proxy, cur.role, FALSE, cur.dst)}
        /\ UNCHANGED errs
     \/ \E e \in ErrorsAt(cur.proxy) : Fail(e) /\ UNCHANGED events
  /\ UNCHANGED <<bodyStream, config, req, cur, attempts, bodyPos, fallback, response>>
  /\ UNCHANGED <<urlVars, frameVars, httpVars, wireVars, isoVars>>

\* await writer.write(requestLine)
WriteRequestHead ==
  /\ pc = "sock_head"
  /\ \/ /\ pc' = IF cur.body = <<>> THEN "sock_resp" ELSE "sock_body"
        /\ events' = events \cup
             {Event(cur.proxy, cur.role, "request", cur.dst, HttpHeaders(req, cur.dst), <<>>)}
        /\ UNCHANGED errs
     \/ \E e \in ErrorsAt(cur.proxy) : Fail(e) /\ UNCHANGED events
  /\ UNCHANGED <<bodyStream, config, req, cur, attempts, bodyPos, fallback, response>>
  /\ UNCHANGED <<urlVars, frameVars, httpVars, wireVars, isoVars>>

\* one turn of the body loop: reader.read(), then writer.write(value)
CopyBodyChunk ==
  /\ pc = "sock_body"
  /\ IF bodyPos = Len(cur.body)
     THEN pc' = "sock_resp" /\ UNCHANGED <<bodyPos, errs>>
     ELSE \/ bodyPos' = bodyPos + 1 /\ pc' = "sock_body" /\ UNCHANGED errs
          \/ \E e \in ErrorsAt(cur.proxy) : Fail(e) /\ bodyPos' = bodyPos + 1
  /\ UNCHANGED <<bodyStream, config, req, cur, attempts, events, fallback, response>>
  /\ UNCHANGED <<urlVars, frameVars, httpVars, wireVars, isoVars>>

\* return await this.parseResponse(...): the response, or an error before it
AwaitResponse ==
  /\ pc = "sock_resp"
  /\ \/ /\ pc' = "done" /\ response' = Upstream(200, cur.role)
        /\ bodyStream' = [NoStream EXCEPT !.state = "open"]
        /\ UNCHANGED errs
     \/ \E e \in ErrorsAt(cur.proxy) : Fail(e) /\ UNCHANGED <<response, bodyStream>>
  /\ UNCHANGED <<config, req, cur, attempts, events, bodyPos, fallback>>
  /\ UNCHANGED <<urlVars, frameVars, httpVars, wireVars, isoVars>>

\* the catch block of SocketProxy.connectHttp and of Socks5Proxy.connectHttp
CatchHttp ==
  /\ pc = "sock_catch"
  /\ LET error == errs[Len(errs)]
     IN IF cur.proxy = "Socks5"
        THEN /\ pc' = "done"
             /\ response' = HandleError(error, "SOCKS5 connection", 500, cur.role)
             /\ UNCHANGED <<cur, attempts, events, bodyPos, fallback>>
        ELSE IF ~IsCloudflareNetworkError(error)
        THEN /\ pc' = "done"
             /\ response' = HandleError(error, "Socket connection", 500, cur.role)
             /\ UNCHANGED <<cur, attempts, events, bodyPos, fallback>>
        ELSE LET kind == FallbackProxy(config)
                 body == FallbackRequestBody(req.body, bodyPos)
             IN /\ fallback' = kind
                /\ IF ConstructorThrows(kind, config)
                   THEN /\ pc' = "done"
                        /\ response' = ControllerError(InvalidSocks)
                        /\ UNCHANGED <<cur, attempts, events, bodyPos>>
                   ELSE /\ cur' = [proxy |-> kind, role |-> "fallback", dst |-> cur.dst,
                                   body |-> body]
                        /\ attempts' = Append(attempts,
                             Invocation(kind, "connectHttp", "fallback", cur.dst, body, bodyPos))
                        /\ bodyPos' = 0
                        /\ Apply(EntryHttp(kind, "fallback", req, body, cur.dst, config))
  /\ UNCHANGED <<bodyStream, config, req, errs>>
  /\ UNCHANGED <<urlVars, frameVars, httpVars, wireVars, isoVars>>

\* errors of the body stream: upstream ended inside a chunk, the read was
\* rejected
StreamErrors ==
  { Error(<<"Unexpected EOF in chunked encoding">>),
    Error(<<"Stream was cancelled">>),
    Error(<<"Network connection failure">>) }

\* a body error that is thrown on to the catch of connectHttp
StreamErrorRethrown(e) ==
  /\ Fail(e)
  /\ UNCHANGED bodyStream

\* the catch inside start(): ctrl.error(err)
StreamError(e) ==
  /\ bodyStream' = [state |-> "errored", error |-> e]
  /\ UNCHANGED <<pc, errs>>

\* start() of the body stream after parseResponse has returned the response:
\* the body is read to its end and the stream closed, or a read or a chunk
\* fails and the stream is errored
BodyStreamSettle ==
  /\ pc = "done" /\ bodyStream.state = "open"
  /\ \/ bodyStream' = [bodyStream EXCEPT !.state = "closed"] /\ UNCHANGED <<pc, errs>>
     \/ \E e \in StreamErrors : StreamError(e)
  /\ UNCHANGED <<config, req, cur, attempts, events, bodyPos, fallback, response>>
  /\ UNCHANGED <<urlVars, frameVars, httpVars, wireVars, isoVars>>

\* await fetch(...) of the Fetch, ThirdParty and CloudProvider variants
FetchSettle ==
  /\ pc \in {"fetch_wait", "fetchdns_wait"}
  /\ pc' = "done"
  /\ \/ response' = Upstream(200, cur.role)
     \/ \E e \in ErrorsAt(cur.proxy) :
          response' =
               IF pc = "fetchdns_wait"
               THEN HandleError(e, "Fetch DNS query handling", 502, cur.role)
               ELSE HandleError(e, CASE cur.proxy = "Fetch" -> "Fetch connection"
                                     [] cur.proxy = "ThirdParty" -> "Third party proxy connection"
                                     [] OTHER -> "Cloud provider proxy connection",
                                500, cur.role)
  /\ UNCHANGED <<bodyStream, config, req, cur, attempts, events, bodyPos, errs, fallback>>
  /\ UNCHANGED <<urlVars, frameVars, httpVars, wireVars, isoVars>>

\* an exception that no transport catches reaches the catch of handleRequest
Escape(e) ==
  /\ errs' = Append(errs, e)
  /\ pc' = "done"
  /\ response' = ControllerError(e)

\* connectWebSocket: await connect(...) or socks5Connect(...)
WebSocketConnect ==
  /\ pc = "ws_connect"
  /\ \/ /\ pc' = "ws_handshake"
        /\ events' = events \cup {ConnectEvent(cur.proxy, cur.role, TRUE, cur.dst)}
        /\ UNCHANGED <<errs, response>>
     \/ \E e \in ErrorsAt(cur.proxy) : Escape(e) /\ UNCHANGED events
  /\ UNCHANGED <<bodyStream, config, req, cur, attempts, bodyPos, fallback>>
  /\ UNCHANGED <<urlVars, frameVars, httpVars, wireVars, isoVars>>

\* what readUntilDoubleCRLF may return: the text read up to the first read
\* that brought CRLF CRLF, or up to EOF
HandshakeReplies ==
  { <<"HTTP/1.1", " ", "101", " ", "Switching Protocols", "CR", "LF",
      "upgrade", ": ", "websocket", "CR", "LF", "CR", "LF">>,
    <<"HTTP/1.1", " ", "403", " ", "Forbidden", "CR", "LF", "CR", "LF">>,
    <<"HTTP/1.1", " ", "101", " ", "OK", "CR", "LF", "CR", "LF">>,
    <<"HTTP/1.1", " ", "200", " ", "Switching Protocols", "CR", "LF", "CR", "LF">>,
    <<"HTTP/1.1", " ", "400", " ", "Bad Request", "CR", "LF", "x-request-id", ": ", "101", "CR", "LF",
      "x-note", ": ", "Switching Protocols", "CR", "LF", "CR", "LF">>,
    <<"HTTP/1.1", " ", "101", " ", "Switching Protocols">>,
    <<>> }

\* a check of the handshake reply that looks for the status only
HandshakeAcceptedStatusOnly(handshakeResp) == Includes(handshakeResp, <<"101">>)

\* handshakeResp.includes("101") && handshakeResp.includes("Switching Protocols")
HandshakeAccepted(handshakeResp) ==
  Includes(handshakeResp, <<"101">>) /\ Includes(handshakeResp, <<"Switching Protocols">>)

\* connectWebSocket: the handshake request is written and the reply read; on
\* an accepted reply relayWebSocketFrames is started and 101 returned
WebSocketHandshake ==
  /\ pc = "ws_handshake"
  /\ \/ \E handshakeResp \in HandshakeReplies :
          LET sent == {Event(cur.proxy, cur.role, "request", cur.dst,
                             WebSocketHeaders(req, cur.dst), <<>>),
                       Event(cur.proxy, cur.role, "reply", cur.dst, {}, handshakeResp)}
          IN IF HandshakeAccepted(handshakeResp)
             THEN /\ events' = events \cup sent \cup
                       {Event(cur.proxy, cur.role, "relay", cur.dst, {}, <<>>)}
                  /\ pc' = "done" /\ response' = Reply(101, cur.proxy, cur.role)
                  /\ UNCHANGED errs
             ELSE /\ events' = events \cup sent
                  /\ Escape(Error(<<"WebSocket handshake failed: ">> \o handshakeResp))
     \/ \E e \in ErrorsAt(cur.proxy) : Escape(e) /\ UNCHANGED events
  /\ UNCHANGED <<bodyStream, config, req, cur, attempts, bodyPos, fallback>>
  /\ UNCHANGED <<urlVars, frameVars, httpVars, wireVars, isoVars>>

\* handleDnsQuery of DoH and DoT: await req.arrayBuffer()
DnsReadBody ==
  /\ pc = "dns_body"
  /\ \/ bodyPos' = Len(cur.body) /\ pc' = "dns_socket" /\ UNCHANGED errs
     \/ \E e \in ErrorsAt(cur.proxy) : errs' = Append(errs, e) /\ pc' = "dns_fallback" /\ UNCHANGED bodyPos
  /\ UNCHANGED <<bodyStream, config, req, cur, attempts, events, fallback, response>>
  /\ UNCHANGED <<urlVars, frameVars, httpVars, wireVars, isoVars>>

\* handleDnsQuery of DoH and DoT: the query is written to the TLS socket
DnsSocketWrite ==
  /\ pc = "dns_socket"
  /\ \/ /\ pc' = "dns_read"
        /\ events' = events \cup
             {Event(cur.proxy, cur.role, "dns", <<"dns.google">>,
                    IF cur.proxy = "DoH" THEN DoHHeaders(req) ELSE {}, cur.body)}
        /\ UNCHANGED errs
     \/ \E e \in ErrorsAt(cur.proxy) : errs' = Append(errs, e) /\ pc' = "dns_fallback" /\ UNCHANGED events
  /\ UNCHANGED <<bodyStream, config, req, cur, attempts, bodyPos, fallback, response>>
  /\ UNCHANGED <<urlVars, frameVars, httpVars, wireVars, isoVars>>

\* what the code itself throws once the reply was read to EOF: DoH when the
\* reply has no CRLF CRLF, DoT (the DataView) when it has fewer than 2 bytes
DnsReadErrors(kind) ==
  IF kind = "DoH" THEN {Error(<<"Could not find HTTP header/body separator in response.">>)}
  ELSE {Error(<<"Offset is outside the bounds of the DataView">>)}

\* handleDnsQuery of DoH and DoT: the reply is read to EOF and returned
DnsSocketRead ==
  /\ pc = "dns_read"
  /\ \/ pc' = "done" /\ response' = Reply(200, cur.proxy, cur.role) /\ UNCHANGED errs
     \/ \E e \in ErrorsAt(cur.proxy) \cup DnsReadErrors(cur.proxy) :
          errs' = Append(errs, e) /\ pc' = "dns_fallback" /\ UNCHANGED response
  /\ UNCHANGED <<bodyStream, config, req, cur, attempts, events, bodyPos, fallback>>
  /\ UNCHANGED <<urlVars, frameVars, httpVars, wireVars, isoVars>>

\* a fallback that is handed the body stream of the original request, which
\* arrayBuffer() has consumed
ClientDnsQueryConsumed(body, pos) == <<>>

\* clientDnsQuery in the catch block: the buffer req.arrayBuffer() returned,
\* undefined (no body) when that call is what failed
ClientDnsQuery(body, pos) == IF pos = Len(body) THEN body ELSE <<>>

\* the catch of handleDnsQuery: DoH calls FetchProxy.handleDnsQuery with the
\* buffered query, DoT fetches the DoH server itself
DnsFallback ==
  /\ pc = "dns_fallback"
  /\ pc' = "dnsfb_wait"
  /\ LET query == ClientDnsQuery(cur.body, bodyPos)
     IN IF cur.proxy = "DoH"
        THEN /\ attempts' = Append(attempts,
                  Invocation("Fetch", "handleDnsQuery", "fallback", <<>>, query, bodyPos))
             /\ events' = events \cup
                  {Event("Fetch", "fallback", "fetch", DOH_SERVER, FetchDnsHeaders(req), query)}
        ELSE /\ attempts' = attempts
             /\ events' = events \cup
                  {Event("DoT", "fallback", "fetch", DOH_SERVER, DoTFallbackHeaders, query)}
  /\ UNCHANGED <<bodyStream, config, req, cur, bodyPos, errs, fallback, response>>
  /\ UNCHANGED <<urlVars, frameVars, httpVars, wireVars, isoVars>>

\* the fallback fetch of a DNS transport settles
DnsFallbackSettle ==
  /\ pc = "dnsfb_wait"
  /\ pc' = "done"
  /\ \/ response' = Upstream(200, "fallback")
     \/ \E e \in ErrorsAt(cur.proxy) :
          response' =
               IF cur.proxy = "DoH"
               THEN HandleError(e, "Fetch DNS query handling", 502, "fallback")
               ELSE HandleError(e, "DoT and subsequent DoH fallback", 500, "fallback")
  /\ UNCHANGED <<bodyStream, config, req, cur, attempts, events, bodyPos, errs, fallback>>
  /\ UNCHANGED <<urlVars, frameVars, httpVars, wireVars, isoVars>>

\* the controller before a request arrives
CtlIdle ==
  /\ config = DEFAULT_CONFIG
  /\ req = [pathname |-> <<"/">>, search |-> <<>>, method |-> "GET", headers |-> {},
            body |-> <<>>]
  /\ pc = "idle"
  /\ cur = NoAttempt
  /\ attempts = <<>>
  /\ events = {}
  /\ bodyPos = 0
  /\ errs = <<>>
  /\ fallback = "none"
  /\ response = NoResponse
  /\ bodyStream = NoStream

\* no call of parseDestinationUrl, packTextFrame or parseResponse under way
UrlIdle == urlCase = <<>> /\ dstUrl = <<>>
FrameIdle == payload = <<>> /\ packed = <<>>
HttpIdle == upstream = <<>> /\ parser = <<>>
ReaderIdle == inbound = <<>> /\ framesReader = <<>> /\ outbound = <<>>
SocksIdle == socksCase = <<>> /\ socks = <<>>
DotIdle == dotCase = <<>> /\ dot = <<>>
WireIdle == ReaderIdle /\ SocksIdle /\ DotIdle
IsoIdle == heap = <<>> /\ tasks = <<>>

Init ==
  /\ config \in Configs
  /\ req \in Requests
  /\ pc = "start"
  /\ cur = NoAttempt
  /\ attempts = <<>>
  /\ events = {}
  /\ bodyPos = 0
  /\ errs = <<>>
  /\ fallback = "none"
  /\ response = NoResponse
  /\ bodyStream = NoStream
  /\ UrlIdle /\ FrameIdle /\ HttpIdle /\ WireIdle /\ IsoIdle

Next ==
  \/ HandleRequest
  \/ SocketConnect
  \/ WriteRequestHead
  \/ CopyBodyChunk
  \/ AwaitResponse
  \/ CatchHttp
  \/ BodyStreamSettle
  \/ FetchSettle
  \/ WebSocketConnect
  \/ WebSocketHandshake
  \/ DnsReadBody
  \/ DnsSocketWrite
  \/ DnsSocketRead
  \/ DnsFallback
  \/ DnsFallbackSettle

Spec == Init /\ [][Next]_vars

---------------------------------------------------------------------------
(* Claims about the controller (specification Spec) *)

\* the first attempt is the HTTP path of the Socket transport
SocketHttpPrimary ==
  /\ attempts # <<>>
  /\ attempts[1].proxy = "Socket" /\ attempts[1].method = "connect"
  /\ ~IsWebSocket(req)

\* the catch block of the first attempt has run
PrimaryCatchRan == errs # <<>> /\ ~(pc = "sock_catch" /\ Len(errs) = 1)

\* the message holds one of the nine network-restricted substrings
NetworkRestricted(e) ==
  e.text # <<>> /\ \E sub \in NETWORK_ERROR_SUBSTRINGS : Includes(e.text, sub)

\* a request with a body whose Socket attempt failed with a network-restricted error
PrimaryFailedRestricted ==
  SocketHttpPrimary /\ req.body # <<>> /\ PrimaryCatchRan /\ NetworkRestricted(errs[1])

\* the fallback connectHttp was invoked with the whole original body
FallbackGotFullBody ==
  /\ Len(attempts) >= 2
  /\ attempts[2].method = "connectHttp" /\ attempts[2].role = "fallback"
  /\ attempts[2].body = req.body

\* the configured fallback is socks5 with an address its constructor rejects
FallbackUnconstructible ==
  /\ ToLowerCase(config.FALLBACK_PROXY_STRATEGY) = "socks5"
  /\ ParseSocks5AddressThrows(config.SOCKS5_ADDRESS)

\* the configured fallback is a relay whose URL new URL() rejects
FallbackRelayUnparsable ==
  \/ /\ config.FALLBACK_PROXY_STRATEGY = "thirdparty"
     /\ config.THIRD_PARTY_PROXY_URL # <<>> /\ ~ParseUrl(config.THIRD_PARTY_PROXY_URL).ok
  \/ /\ config.FALLBACK_PROXY_STRATEGY = "cloudprovider"
     /\ config.CLOUD_PROVIDER_URL # <<>> /\ ~ParseUrl(config.CLOUD_PROVIDER_URL).ok

C2_Classification ==
  (SocketHttpPrimary /\ PrimaryCatchRan) =>
    /\ fallback # "none" <=> NetworkRestricted(errs[1])
    /\ ~NetworkRestricted(errs[1]) =>
         /\ Len(attempts) = 1 /\ pc = "done"
         /\ response.status = 500 /\ response.via = "primary"
         /\ response.text = <<"Error ", "socket connection", ": ">>
                               \o (IF errs[1].undef THEN <<"undefined">> ELSE errs[1].text)

\* an error without a message was caught and turned into a 500
C2_Witness ==
  /\ SocketHttpPrimary /\ pc = "done"
  /\ errs = <<ErrorNoMessage>>
  /\ fallback = "none" /\ response.status = 500

\* the variant a strategy name stands for
NamedVariant(name) ==
  CASE name = "socket" -> "Socket"
    [] name = "fetch" -> "Fetch"
    [] name = "socks5" -> "Socks5"
    [] name = "thirdparty" -> "ThirdParty"
    [] name = "cloudprovider" -> "CloudProvider"
    [] name = "doh" -> "DoH"
    [] name = "dot" -> "DoT"
    [] OTHER -> "Fetch"

\* C3 as stated: the fallback constructed is the variant that
\* FALLBACK_PROXY_STRATEGY names, for each of the seven names; Fetch when unset.
C3_FallbackIsNamedVariant ==
  fallback # "none" => fallback = NamedVariant(ToLowerCase(config.FALLBACK_PROXY_STRATEGY))

\* C3, amended: after a network-restricted error the fallback constructed is
\* the named variant for fetch, socks5, thirdparty and cloudprovider; for
\* socket, doh, dot and an unset key it is Fetch.
C3_FallbackSelection ==
  fallback # "none" =>
    /\ NetworkRestricted(errs[1])
    /\ fallback =
         IF ToLowerCase(config.FALLBACK_PROXY_STRATEGY) \in
              {"fetch", "socks5", "thirdparty", "cloudprovider"}
         THEN NamedVariant(ToLowerCase(config.FALLBACK_PROXY_STRATEGY))
         ELSE "Fetch"

\* with FALLBACK_PROXY_STRATEGY = doh the Fetch transport ran as fallback
C3_Witness ==
  /\ config.FALLBACK_PROXY_STRATEGY = "doh"
  /\ fallback = "Fetch" /\ Len(attempts) = 2 /\ attempts[2].proxy = "Fetch"

\* the first path segment is missing or differs from AUTH_TOKEN
TokenMismatch == PathParts(req) = <<>> \/ PathParts(req)[1] # config.AUTH_TOKEN

\* C4: a request whose first path segment differs from AUTH_TOKEN is
\* forwarded to DEFAULT_DST_URL whatever PROXY_STRATEGY is: the transport is
\* asked to reach DEFAULT_DST_URL, nothing derived from the rest of the path
\* is contacted, and no DNS query is proxied for it.
C4_TokenGate ==
  (TokenMismatch /\ pc # "start") =>
    /\ \A i \in 1..Len(attempts) :
         attempts[i].method \in {"connect", "connectHttp"}
           /\ attempts[i].dst = config.DEFAULT_DST_URL
    /\ \A ev \in events :
         /\ ~Includes(ev.to, <<"example.com">>)
         /\ ev.op # "dns" /\ ~Includes(ev.to, <<"dns.google">>)

\* the path is /{token}/dns/{doh|dot}[/...] with the configured token
DnsTyped ==
  LET parts == PathParts(req)
  IN /\ Len(parts) >= 3
     /\ parts[1] = config.AUTH_TOKEN /\ parts[2] = <<"dns">>
     /\ parts[3] \in {<<"doh">>, <<"dot">>}

\* C5: for /{token}/dns/{doh|dot}[/...] with the configured token, whatever
\* PROXY_STRATEGY is, the controller instantiates the DoH (doh) or DoT (dot)
\* transport and calls handleDnsQuery on it; connect is never called.
C5_DnsDispatch ==
  (DnsTyped /\ pc # "start") =>
    /\ attempts # <<>>
    /\ attempts[1].method = "handleDnsQuery"
    /\ attempts[1].proxy = IF PathParts(req)[3] = <<"doh">> THEN "DoH" ELSE "DoT"
    /\ \A i \in 1..Len(attempts) : attempts[i].method # "connect"

\* /tok/dns/dot/1.1.1.1 under PROXY_STRATEGY = socks5 was answered by DoT
C5_Witness ==
  /\ DnsTyped /\ pc = "done"
  /\ config.PROXY_STRATEGY = "socks5" /\ PathParts(req)[3] = <<"dot">>
  /\ attempts[1].proxy = "DoT" /\ response = Reply(200, "DoT", "primary")

\* the Host value a transport sets itself for the upstream it talks to
FreshHost(ev) == IF ev.op = "dns" THEN ev.to ELSE ParseUrl(ev.to).hostname

\* every inbound header whose name is not denied is in the head sent upstream
ForwardsAllowed(ev) ==
  \A h \in req.headers : ~HeaderFilterTest(h.k) => \E x \in ev.headers : x.k = h.k

\* upstream requests that carry a header set
HeadEvents == {ev \in events : ev.op \in {"request", "fetch", "dns"} /\ ev.by # "DoT"}

\* C7 as stated: for Socket, Socks5, Fetch, DoH and whichever transport runs
\* as fallback, the head sent upstream holds no header matching the deny
\* pattern except a freshly set Host, and every other inbound header.
C7_NoDeniedHeaderButHost ==
  \A ev \in HeadEvents :
    (ev.by \in {"Socket", "Socks5", "Fetch", "DoH"} \/ ev.role = "fallback") =>
      /\ \A h \in ev.headers :
           HeaderFilterTest(h.k) => h = Hdr(<<"host">>, FreshHost(ev))
      /\ ForwardsAllowed(ev)

\* C7, amended: the head sent upstream by Socket, Socks5, Fetch and DoH (as
\* primary or fallback) holds no denied header except a freshly set Host and,
\* on the HTTP path of Socket and Socks5, a freshly set accept-encoding:
\* identity, and it holds every other inbound header; ThirdParty and
\* CloudProvider, also as fallback, forward the inbound headers unfiltered.
C7_HeaderSanitization ==
  \A ev \in HeadEvents :
    IF ev.by \in {"ThirdParty", "CloudProvider"}
    THEN ev.headers = req.headers
    ELSE /\ \A h \in ev.headers :
              HeaderFilterTest(h.k) =>
                \/ h = Hdr(<<"host">>, FreshHost(ev))
                \/ /\ ev.by \in {"Socket", "Socks5"} /\ ~IsWebSocket(req)
                   /\ h = Hdr(<<"accept-encoding">>, <<"identity">>)
         /\ ForwardsAllowed(ev)

\* a Socks5 fallback wrote a head for a request that carried denied headers
C7_Witness ==
  \E ev \in HeadEvents :
    /\ ev.by = "Socks5" /\ ev.role = "fallback" /\ req.headers = HeadersPlain
    /\ Hdr(<<"user-agent">>, In) \in ev.headers
    /\ Hdr(<<"host">>, <<"example.com">>) \in ev.headers

---------------------------------------------------------------------------
(* parseDestinationUrl on its own (specification SpecUrl) *)

\* the scheme segments tried
UrlSchemes == {<<"http">>, <<"https">>, <<"wss">>}

\* the segments after the scheme: host first, empty ones where the path has
\* a doubled or a trailing slash
UrlSegments ==
  { << <<"example.com">> >>,
    << <<"example.com">>, <<"a">> >>,
    << <<"example.com">>, <<"a">>, <<>> >>,
    << <<>>, <<"example.com">>, <<"a">> >>,
    << <<"example.com", ":", "8080">>, <<"a">>, <<"b">> >>,
    << <<"example.com">>, <<"a">>, <<>>, <<"b">> >> }

\* url.search: empty, or "?" and what follows it
UrlSearches ==
  { <<>>, <<"?", "q=1">>, <<"?", "u=", "https", ":", "/", "/", "x", "/", "y">> }

\* the paths: a scheme and what follows it, or a path that ends at the token
UrlCases ==
  { [scheme |-> sc, segs |-> sg, search |-> q] :
      sc \in UrlSchemes, sg \in UrlSegments, q \in UrlSearches }
  \cup { [scheme |-> <<>>, segs |-> sg, search |-> q] :
           sg \in {<<>>, << <<>> >>}, q \in UrlSearches }

\* the request for a case: /{token}/{scheme}/... or, with colon, /{token}/{scheme}:/...
UrlRequest(c, colon) ==
  [ pathname |->
      Path(<<AUTH_TOKEN>>
           \o (IF c.scheme = <<>> THEN <<>>
               ELSE << c.scheme \o (IF colon THEN <<":">> ELSE <<>>) >>)
           \o c.segs),
    search |-> c.search, method |-> "GET", headers |-> {}, body |-> <<>> ]

\* parseDestinationUrl is applied to both spellings of the case
ParseDestination ==
  /\ urlCase # <<>> /\ dstUrl = <<>>
  /\ dstUrl' = [ plain |-> ParseDestinationUrl(UrlRequest(urlCase, FALSE), DEFAULT_CONFIG),
                 colon |-> ParseDestinationUrl(UrlRequest(urlCase, TRUE), DEFAULT_CONFIG) ]
  /\ UNCHANGED <<urlCase, ctlVars, frameVars, httpVars, wireVars, isoVars>>

InitUrl ==
  /\ urlCase \in UrlCases
  /\ dstUrl = <<>>
  /\ CtlIdle /\ FrameIdle /\ HttpIdle /\ WireIdle /\ IsoIdle

NextUrl == ParseDestination

SpecUrl == InitUrl /\ [][NextUrl]_vars

\* scheme://host/... of a case, written out: the non-empty segments joined by "/"
ExpectedDestination(c) ==
  c.scheme \o <<":", "/", "/">> \o Join(FilterBoolean(c.segs), "/") \o c.search

\* C6: with a matching token, /{token}/{scheme}/{host}/... and
\* /{token}/{scheme}:/{host}/... give the same destination, scheme://host/...
\* followed by the query string unchanged; a path with no scheme segment
\* gives DEFAULT_DST_URL.
C6_SchemeColonEquivalence ==
  dstUrl # <<>> =>
    IF urlCase.scheme = <<>>
    THEN dstUrl.plain = DEFAULT_DST_URL
    ELSE /\ dstUrl.plain = dstUrl.colon
         /\ dstUrl.plain = ExpectedDestination(urlCase)

\* both spellings of /tok/https/example.com:8080/a/b with a query that holds
\* "://" gave the same URL
C6_Witness ==
  /\ dstUrl # <<>>
  /\ urlCase.scheme = <<"https">>
  /\ urlCase.search = <<"?", "u=", "https", ":", "/", "/", "x", "/", "y">>
  /\ dstUrl.colon = <<"https", ":", "/", "/", "example.com", ":", "8080", "/", "a", "/", "b",
                      "?", "u=", "https", ":", "/", "/", "x", "/", "y">>
  /\ dstUrl.plain = dstUrl.colon

---------------------------------------------------------------------------
(* packTextFrame on its own (specification SpecFrame) *)

FIN_AND_OP == 129
maskBit == 128
\* payloads of this length and longer are refused
PAYLOAD_LIMIT == 65536

RECURSIVE BitOr(_, _)
\* a | b
BitOr(a, b) ==
  IF a = 0 THEN b ELSE IF b = 0 THEN a
  ELSE (IF a % 2 = 1 \/ b % 2 = 1 THEN 1 ELSE 0) + 2 * BitOr(a \div 2, b \div 2)

RECURSIVE BitAnd(_, _)
\* a & b
BitAnd(a, b) ==
  IF a = 0 \/ b = 0 THEN 0
  ELSE (IF a % 2 = 1 /\ b % 2 = 1 THEN 1 ELSE 0) + 2 * BitAnd(a \div 2, b \div 2)

RECURSIVE BitXor(_, _)
\* a ^ b
BitXor(a, b) ==
  IF a = 0 THEN b ELSE IF b = 0 THEN a
  ELSE (((a % 2) + (b % 2)) % 2) + 2 * BitXor(a \div 2, b \div 2)

\* a ^ b on bytes, tabulated
ByteXor == [a \in 0..255 |-> [b \in 0..255 |-> BitXor(a, b)]]

\* a packer that walks the mask from its second byte
PackTextFrameShiftedMask(bytes, mask) ==
  LET len == Len(bytes)
      header == IF len < 126 THEN <<FIN_AND_OP, BitOr(maskBit, len)>>
                ELSE <<FIN_AND_OP, BitOr(maskBit, 126), BitAnd(len \div 256, 255), BitAnd(len, 255)>>
      maskedPayload == [i \in 1..len |-> ByteXor[bytes[i]][mask[(i % 4) + 1]]]
  IN IF len >= PAYLOAD_LIMIT
     THEN [error |-> <<"Payload too large">>, frame |-> <<>>, mask |-> <<>>]
     ELSE [error |-> <<>>, frame |-> header \o mask \o maskedPayload, mask |-> mask]

\* BaseProxy.packTextFrame; mask is what crypto.getRandomValues put in the
\* 4-byte array (not drawn when the payload is refused)
PackTextFrame(bytes, mask) ==
  LET len == Len(bytes)
      header == IF len < 126 THEN <<FIN_AND_OP, BitOr(maskBit, len)>>
                ELSE <<FIN_AND_OP, BitOr(maskBit, 126), BitAnd(len \div 256, 255), BitAnd(len, 255)>>
      maskedPayload == [i \in 1..len |-> ByteXor[bytes[i]][mask[((i - 1) % 4) + 1]]]
  IN IF len >= PAYLOAD_LIMIT
     THEN [error |-> <<"Payload too large">>, frame |-> <<>>, mask |-> <<>>]
     ELSE [error |-> <<>>, frame |-> header \o mask \o maskedPayload, mask |-> mask]

\* payload lengths around the 7-bit limit and around one length byte; the
\* largest accepted payload and the smallest refused one are added below
PayloadLengths == {0, 1, 2, 5, 125, 126, 127, 128, 255, 256, 300}

\* payload bytes: a pattern that runs through all byte values
PayloadOf(len, seed) == [i \in 1..len |-> (seed + 7 * i) % 256]

Payloads ==
  {PayloadOf(len, seed) : len \in PayloadLengths, seed \in {0, 90}}
  \cup {PayloadOf(len, 0) : len \in {PAYLOAD_LIMIT - 1, PAYLOAD_LIMIT}}

\* values crypto.getRandomValues may produce
Masks == { <<0, 0, 0, 0>>, <<255, 255, 255, 255>>, <<1, 2, 3, 4>>, <<170, 85, 240, 15>> }

\* packTextFrame(payload) is called
PackFrame ==
  /\ packed = <<>>
  /\ \E mask \in Masks : packed' = PackTextFrame(payload, mask)
  /\ UNCHANGED <<payload, ctlVars, urlVars, httpVars, wireVars, isoVars>>

InitFrame ==
  /\ payload \in Payloads
  /\ packed = <<>>
  /\ CtlIdle /\ UrlIdle /\ HttpIdle /\ WireIdle /\ IsoIdle

NextFrame == PackFrame

SpecFrame == InitFrame /\ [][NextFrame]_vars

\* the length of the frame head: 2 bytes, or 4 with the 16-bit length
FrameHeadLength(len) == IF len < 126 THEN 2 ELSE 4

\* C8: a frame produced by packTextFrame for a payload shorter than 65536
\* bytes has the MASK bit set, a 4-byte mask right after the length field,
\* the payload length in the 7-bit form below 126 and in the 16-bit
\* big-endian form otherwise, and payload[i] = masked[i] XOR mask[i mod 4].
C8_MaskedFrame ==
  (packed # <<>> /\ Len(payload) < 65536) =>
    LET len == Len(payload)
        f == packed.frame
        h == FrameHeadLength(len)
    IN /\ packed.error = <<>>
       /\ Len(f) = h + 4 + len
       /\ f[1] = 129
       /\ f[2] \div 128 = 1
       /\ IF len < 126 THEN f[2] % 128 = len
          ELSE f[2] % 128 = 126 /\ f[3] * 256 + f[4] = len
       /\ SubSeq(f, h + 1, h + 4) = packed.mask
       /\ \A i \in 0..(len - 1) : payload[i + 1] = ByteXor[f[h + 4 + i + 1]][f[h + 1 + (i % 4)]]

\* a 300-byte payload was packed with the mask 1 2 3 4
C8_Witness ==
  /\ packed # <<>> /\ Len(payload) = 300
  /\ SubSeq(packed.frame, 1, 8) = <<129, 254, 1, 44, 1, 2, 3, 4>>
  /\ packed.frame[9] = BitXor(payload[1], 1)
  /\ packed.frame[9] # payload[1]

---------------------------------------------------------------------------
(* parseResponse and readChunks (specification SpecHttp) *)
(* A byte of the upstream stream is a token: CR, LF, a character of the    *)
(* head or of a chunk-size line, or a body byte.  TextDecoder.decode is    *)
(* the identity on these.                                                  *)

\* the most chunks of a chunked body
MaxChunks == 2
\* the largest content-length
MaxContentLength == 2
\* the most bytes upstream sends after the head of a response that is not chunked
MaxSupplied == 4

CR == "CR"
LF == "LF"
CRLF == <<CR, LF>>

\* String.prototype.indexOf(pat), counted from 1; 0 when pat does not occur
IndexOf(t, pat) ==
  LET hits == {i \in 1..(Len(t) - Len(pat) + 1) : SubSeq(t, i, i + Len(pat) - 1) = pat}
  IN IF hits = {} THEN 0 ELSE CHOOSE i \in hits : \A j \in hits : i <= j

RECURSIVE SplitCRLF(_)
\* String.prototype.split("\r\n")
SplitCRLF(t) ==
  IF t = <<>> THEN << <<>> >>
  ELSE IF Len(t) >= 2 /\ t[1] = CR /\ t[2] = LF
       THEN << <<>> >> \o SplitCRLF(SubSeq(t, 3, Len(t)))
  ELSE LET r == SplitCRLF(Tail(t)) IN << <<Head(t)>> \o Head(r) >> \o Tail(r)

\* the value of a digit character, -1 for any other character
DigitValue(c) ==
  CASE c = "0" -> 0 [] c = "1" -> 1 [] c = "2" -> 2 [] c = "3" -> 3 [] c = "4" -> 4
    [] c = "5" -> 5 [] c = "6" -> 6 [] c = "7" -> 7 [] c = "8" -> 8 [] c = "9" -> 9
    [] c = "a" -> 10 [] c = "b" -> 11 [] c = "c" -> 12 [] c = "d" -> 13
    [] c = "e" -> 14 [] c = "f" -> 15
    [] c = "A" -> 10 [] c = "B" -> 11 [] c = "C" -> 12 [] c = "D" -> 13
    [] c = "E" -> 14 [] c = "F" -> 15
    [] OTHER -> -1

NaN == -1

RECURSIVE ParseIntFrom(_, _, _, _)
\* the digits of s from position i on, folded into acc (NaN while none was seen)
ParseIntFrom(s, radix, i, acc) ==
  IF i > Len(s) \/ DigitValue(s[i]) = -1 \/ DigitValue(s[i]) >= radix THEN acc
  ELSE ParseIntFrom(s, radix, i + 1, (IF acc = NaN THEN 0 ELSE acc * radix) + DigitValue(s[i]))

\* parseInt(s, radix): the leading digits of s; NaN when there is none
ParseInt(s, radix) == ParseIntFrom(s, radix, 1, NaN)

\* Headers.prototype.append(k, v): values of one name are joined by ", "
HeadersAppend(h, k, v) ==
  IF \E x \in h : x.k = LowerName(k)
  THEN HeadersSet(h, k, HeadersGet(h, k) \o <<", ">> \o v)
  ELSE HeadersSet(h, k, v)

RECURSIVE AppendHeaderLines(_, _, _)
\* the loop of parseHttpHeaders over headerSection[1..]: a line without ": " is skipped
AppendHeaderLines(h, lines, i) ==
  IF i > Len(lines) THEN h
  ELSE LET line == lines[i]
           idx == IndexOf(line, <<": ">>)
       IN AppendHeaderLines(
            IF idx = 0 THEN h
            ELSE HeadersAppend(h, SubSeq(line, 1, idx - 1), SubSeq(line, idx + 1, Len(line))),
            lines, i + 1)

\* statusLine.match(/HTTP\/1\.[01] (\d+) (.*)/): where the match starts, 0 for none
StatusMatch(line) ==
  LET hits == {i \in 1..(Len(line) - 3) :
                 /\ line[i] \in {"HTTP/1.1", "HTTP/1.0"} /\ line[i + 1] = " "
                 /\ line[i + 2] \in {"200", "404", "502"} /\ line[i + 3] = " "}
  IN IF hits = {} THEN 0 ELSE CHOOSE i \in hits : \A j \in hits : i <= j

\* BaseProxy.parseHttpHeaders: null (found is false), a throw (invalid), or
\* status, headers and headerEnd (counted from 1)
ParseHttpHeaders(buff) ==
  LET headerEnd == IndexOf(buff, CRLF \o CRLF)
      headerSection == SplitCRLF(SubSeq(buff, 1, headerEnd - 1))
      statusLine == headerSection[1]
      at == StatusMatch(statusLine)
  IN IF headerEnd = 0
     THEN [found |-> FALSE, invalid |-> FALSE, statusLine |-> <<>>, status |-> "",
           headers |-> {}, headerEnd |-> 0]
     ELSE IF at = 0
     THEN [found |-> TRUE, invalid |-> TRUE, statusLine |-> statusLine, status |-> "",
           headers |-> {}, headerEnd |-> headerEnd]
     ELSE [found |-> TRUE, invalid |-> FALSE, statusLine |-> statusLine,
           status |-> statusLine[at + 2],
           headers |-> AppendHeaderLines({}, headerSection, 2), headerEnd |-> headerEnd]

\* a size parser that reads the chunk-size line as a decimal number
ParseChunkSizeDecimal(sizeStr) == ParseInt(sizeStr, 10)

\* readChunks: parseInt(sizeStr, 16)
ParseChunkSize(sizeStr) == ParseInt(sizeStr, 16)

RECURSIVE ReadChunksRun(_, _)
RECURSIVE ReadChunkPayload(_, _, _)
\* readChunks from the top of its outer loop, with buff buffered and body
\* already yielded, up to its next await or its end
ReadChunksRun(buff, body) ==
  LET pos == IndexOf(buff, CRLF)
      size == ParseChunkSize(SubSeq(buff, 1, pos - 1))
  IN IF pos = 0 THEN [pc |-> "chunk_size", buff |-> buff, size |-> 0, body |-> body]
     ELSE IF size = 0 \/ size = NaN
     THEN [pc |-> "closed", buff |-> buff, size |-> size, body |-> body]
     ELSE ReadChunkPayload(SubSeq(buff, pos + 2, Len(buff)), size, body)

\* readChunks at the inner loop: waits until buff holds the chunk and its
\* CRLF, yields the chunk, drops both and goes round the outer loop
ReadChunkPayload(buff, size, body) ==
  IF Len(buff) < size + 2
  THEN [pc |-> "chunk_data", buff |-> buff, size |-> size, body |-> body]
  ELSE ReadChunksRun(SubSeq(buff, size + 3, Len(buff)), body \o SubSeq(buff, 1, size))

\* the parser before the first read
ParserStart ==
  [pc |-> "headers", buff |-> <<>>, data |-> <<>>, size |-> 0, received |-> 0,
   status |-> "", isChunked |-> FALSE, contentLength |-> 0, body |-> <<>>, error |-> <<>>]

\* parseResponse once parseHttpHeaders returned parsed for buff: the Response
\* is built and start() runs up to its first await
StartBody(p, buff, parsed) ==
  LET isChunked == Includes(HeadersGet(parsed.headers, <<"transfer-encoding">>), <<"chunked">>)
      given == HeadersGet(parsed.headers, <<"content-length">>)
      contentLength == ParseInt(IF given = <<>> THEN <<"0">> ELSE given, 10)
      data == SubSeq(buff, parsed.headerEnd + 4, Len(buff))
      base == [p EXCEPT !.buff = buff, !.data = data, !.status = parsed.status,
                        !.isChunked = isChunked, !.contentLength = contentLength]
  IN IF isChunked
     THEN LET r == ReadChunksRun(data, <<>>)
          IN [base EXCEPT !.pc = r.pc, !.buff = r.buff, !.size = r.size, !.body = r.body]
     ELSE [base EXCEPT !.received = Len(data), !.body = data,
                       !.pc = IF Len(data) < contentLength THEN "fixed" ELSE "closed"]

\* reader.read() resolves with the next k bytes of the wire
Supplied(k) == SubSeq(upstream.wire, upstream.sent + 1, upstream.sent + k)

\* reader.read() resolves with a value: any number of the bytes still to come
ReadsValue(k) ==
  /\ ~upstream.done
  /\ k \in 1..(Len(upstream.wire) - upstream.sent)
  /\ upstream' = [upstream EXCEPT !.sent = @ + k]

\* reader.read() resolves with done: upstream closed, at the end of the wire or before
ReadsDone ==
  /\ ~upstream.done
  /\ upstream' = [upstream EXCEPT !.done = TRUE]

\* the header loop of parseResponse: one reader.read()
ReadHeaders ==
  /\ parser # <<>> /\ parser.pc = "headers"
  /\ \/ /\ ReadsDone
        /\ parser' = [parser EXCEPT !.pc = "failed",
                                    !.error = <<"Unable to parse response headers">>]
     \/ \E k \in 1..Len(upstream.wire) :
          /\ ReadsValue(k)
          /\ LET buff == parser.buff \o Supplied(k)
                 parsed == ParseHttpHeaders(buff)
             IN parser' =
                  IF ~parsed.found THEN [parser EXCEPT !.buff = buff]
                  ELSE IF parsed.invalid
                  THEN [parser EXCEPT !.buff = buff, !.pc = "failed",
                          !.error = <<"Invalid status line: ">> \o parsed.statusLine]
                  ELSE StartBody(parser, buff, parsed)
  /\ UNCHANGED <<ctlVars, urlVars, frameVars, wireVars, isoVars>>

\* readChunks, no CRLF in the buffer: one reader.read(); done ends the generator
ReadChunkSize ==
  /\ parser # <<>> /\ parser.pc = "chunk_size"
  /\ \/ \E k \in 1..Len(upstream.wire) :
          /\ ReadsValue(k)
          /\ LET r == ReadChunksRun(parser.buff \o Supplied(k), parser.body)
             IN parser' = [parser EXCEPT !.pc = r.pc, !.buff = r.buff, !.size = r.size,
                                         !.body = r.body]
     \/ /\ ReadsDone
        /\ parser' = [parser EXCEPT !.pc = "closed"]
  /\ UNCHANGED <<ctlVars, urlVars, frameVars, wireVars, isoVars>>

\* a readChunks whose inner loop leaves the generator on done, as its outer loop does
ReadChunkDataEofEnds ==
  /\ parser # <<>> /\ parser.pc = "chunk_data"
  /\ \/ \E k \in 1..Len(upstream.wire) :
          /\ ReadsValue(k)
          /\ LET r == ReadChunkPayload(parser.buff \o Supplied(k), parser.size, parser.body)
             IN parser' = [parser EXCEPT !.pc = r.pc, !.buff = r.buff, !.size = r.size,
                                         !.body = r.body]
     \/ /\ ReadsDone
        /\ parser' = [parser EXCEPT !.pc = "closed"]
  /\ UNCHANGED <<ctlVars, urlVars, frameVars, wireVars, isoVars>>

\* readChunks, the chunk is not whole yet: one reader.read(); done is an error
ReadChunkData ==
  /\ parser # <<>> /\ parser.pc = "chunk_data"
  /\ \/ \E k \in 1..Len(upstream.wire) :
          /\ ReadsValue(k)
          /\ LET r == ReadChunkPayload(parser.buff \o Supplied(k), parser.size, parser.body)
             IN parser' = [parser EXCEPT !.pc = r.pc, !.buff = r.buff, !.size = r.size,
                                         !.body = r.body]
     \/ /\ ReadsDone
        /\ parser' = [parser EXCEPT !.pc = "errored",
                                    !.error = <<"Unexpected EOF in chunked encoding">>]
  /\ UNCHANGED <<ctlVars, urlVars, frameVars, wireVars, isoVars>>

\* the fixed-length loop of parseResponse: one reader.read()
ReadFixed ==
  /\ parser # <<>> /\ parser.pc = "fixed"
  /\ \/ \E k \in 1..Len(upstream.wire) :
          /\ ReadsValue(k)
          /\ LET received == parser.received + k
             IN parser' = [parser EXCEPT !.received = received,
                             !.body = @ \o Supplied(k),
                             !.pc = IF received < parser.contentLength THEN "fixed" ELSE "closed"]
     \/ /\ ReadsDone
        /\ parser' = [parser EXCEPT !.pc = "closed"]
  /\ UNCHANGED <<ctlVars, urlVars, frameVars, wireVars, isoVars>>

\* what an upstream server sends ------------------------------------------

StatusOk == <<"HTTP/1.1", " ", "200", " ", "OK">>

RECURSIVE ResponseHead(_)
\* the head: the lines, each ended by CRLF, and the empty line
ResponseHead(lines) ==
  IF lines = <<>> THEN CRLF ELSE Head(lines) \o CRLF \o ResponseHead(Tail(lines))

RECURSIVE Digits16(_)
\* a chunk size written in base 16
Digits16(n) ==
  LET c == <<"0", "1", "2", "3", "4", "5", "6", "7", "8", "9", "a", "b", "c", "d", "e", "f">>
  IN IF n < 16 THEN <<c[n + 1]>> ELSE Digits16(n \div 16) \o <<c[(n % 16) + 1]>>

\* chunk payloads: one byte, bytes that hold CRLFs and read like the last
\* chunk, and 16 bytes (size line "10")
ChunkPayloads == { <<"x">>, <<"0", CR, LF, CR, LF>>, [i \in 1..16 |-> "m"] }

\* payloads of bodies of one chunk: also 10 bytes (size line "a") and 26 (size line "1a")
SingleChunkPayloads == ChunkPayloads \cup { [i \in 1..10 |-> "n"], [i \in 1..26 |-> "k"] }

RECURSIVE ChunkLists(_)
\* the lists of n chunk payloads
ChunkLists(n) ==
  IF n = 0 THEN { <<>> }
  ELSE {Append(l, c) : l \in ChunkLists(n - 1), c \in ChunkPayloads}

RECURSIVE EncodeChunks(_)
EncodeChunks(payloads) ==
  IF payloads = <<>> THEN <<"0">> \o CRLF \o CRLF
  ELSE Digits16(Len(Head(payloads))) \o CRLF \o Head(payloads) \o CRLF
       \o EncodeChunks(Tail(payloads))

RECURSIVE Digits10(_)
\* a content-length written in base 10
Digits10(n) == IF n < 10 THEN Digits16(n) ELSE Digits10(n \div 10) \o Digits16(n % 10)

\* the first t bytes a server sends as a body that is not chunked
BodyBytes(t) == SubSeq(<<"p", "q", "r", "s", "t", "u", "v", "w">>, 1, t)

UpstreamCase(kind, payloads, n, wire) ==
  [kind |-> kind, payloads |-> payloads, n |-> n, wire |-> wire, sent |-> 0, done |-> FALSE]

ChunkedCase(payloads, header) ==
  UpstreamCase("chunked", payloads, 0, ResponseHead(<<StatusOk, header>>) \o EncodeChunks(payloads))

\* responses: chunked ones, ones with a content-length (with fewer, as many
\* or more body bytes than it says), ones with neither, one with a bad status
\* line, a chunked one whose second size line is not a number
UpstreamCases ==
  { ChunkedCase(l, <<"transfer-encoding", ": ", "chunked">>) :
      l \in UNION {ChunkLists(c) : c \in 0..MaxChunks} }
  \cup { ChunkedCase(l, <<"Transfer-Encoding", ": ", "gzip", ", ", "chunked">>) :
           l \in {<<c>> : c \in SingleChunkPayloads} }
  \cup { UpstreamCase("fixed", <<>>, n,
           ResponseHead(<<StatusOk, <<name, ": ">> \o Digits10(n)>>) \o BodyBytes(t)) :
           n \in 0..MaxContentLength, t \in 0..MaxSupplied,
           name \in {"content-length", "Content-Length"} }
  \cup { UpstreamCase("plain", <<>>, 0,
           ResponseHead(<<StatusOk, <<"server", ": ", "x">>>>) \o BodyBytes(t)) :
           t \in 0..MaxSupplied }
  \cup { UpstreamCase("badstatus", <<>>, 0, ResponseHead(<< <<"HTTP/2", " ", "200">> >>)) }
  \cup { UpstreamCase("badsize", << <<"x">> >>, 0,
           ResponseHead(<<StatusOk, <<"transfer-encoding", ": ", "chunked">>>>)
           \o <<"1">> \o CRLF \o <<"x">> \o CRLF \o <<"z", "z">> \o CRLF \o <<"y">> \o CRLF) }

InitHttp ==
  /\ upstream \in UpstreamCases
  /\ parser = ParserStart
  /\ CtlIdle /\ UrlIdle /\ FrameIdle /\ WireIdle /\ IsoIdle

NextHttp ==
  \/ ReadHeaders
  \/ ReadChunkSize
  \/ ReadChunkData
  \/ ReadFixed

SpecHttp == InitHttp /\ [][NextHttp]_vars

RECURSIVE Concat(_)
\* the chunk payloads one after the other
Concat(payloads) ==
  IF payloads = <<>> THEN <<>> ELSE Head(payloads) \o Concat(Tail(payloads))

\* a is a prefix of b
IsPrefix(a, b) == Len(a) <= Len(b) /\ a = SubSeq(b, 1, Len(a))

\* C9: for every well-formed chunked body and every split of the upstream
\* bytes across reads, the body delivered by parseResponse is the
\* concatenation of the chunk payloads in order, and the body stream then
\* closes: what was delivered so far is a prefix of it, the stream has closed
\* with all of it once upstream has sent everything, and the stream only
\* errors when upstream closed early.
C9_ChunkedRoundTrip ==
  upstream.kind = "chunked" =>
    /\ IsPrefix(parser.body, Concat(upstream.payloads))
    /\ ~upstream.done => parser.pc \notin {"failed", "errored"}
    /\ (parser.pc = "closed" /\ ~upstream.done) => parser.body = Concat(upstream.payloads)
    /\ upstream.sent = Len(upstream.wire) =>
         parser.pc = "closed" /\ parser.body = Concat(upstream.payloads)

\* a 16-byte chunk and a chunk that reads like the last one were delivered;
\* the read that completed the head also brought part of the first chunk
C9_Witness ==
  /\ upstream.kind = "chunked" /\ ~upstream.done
  /\ upstream.payloads = << [i \in 1..16 |-> "m"], <<"0", CR, LF, CR, LF>> >>
  /\ parser.pc = "closed"
  /\ Len(parser.data) = 7
  /\ parser.body = [i \in 1..16 |-> "m"] \o <<"0", CR, LF, CR, LF>>

\* the bytes of the wire after the head
WireBody == SubSeq(upstream.wire, IndexOf(upstream.wire, CRLF \o CRLF) + 4, Len(upstream.wire))

\* C10: with content-length n and at least n body bytes supplied, the client
\* receives exactly n body bytes, however the bytes are split across reads
\* and whatever upstream sends after the n-th body byte.
C10_ExactlyContentLength ==
  ( /\ upstream.kind = "fixed" /\ parser.pc = "closed"
    /\ Len(WireBody) >= upstream.n
    /\ upstream.sent >= Len(upstream.wire) - Len(WireBody) + upstream.n ) =>
  parser.body = SubSeq(WireBody, 1, upstream.n)

\* the transfer mode the header set of the wire calls for
ModeChosen ==
  parser.pc \in {"chunk_size", "chunk_data", "fixed", "closed", "errored"}

\* C11: a response with neither a chunked transfer-encoding nor a
\* content-length is handled in end-of-stream mode: once its body stream has
\* closed, every body byte upstream sends was delivered to the client;
\* chunked is chosen when transfer-encoding contains chunked, fixed length
\* (of the announced length) when only content-length is present.
C11_TransferMode ==
  ModeChosen =>
    /\ upstream.kind = "chunked" => parser.isChunked
    /\ upstream.kind = "fixed" => ~parser.isChunked /\ parser.contentLength = upstream.n
    /\ (upstream.kind = "plain" /\ parser.pc = "closed") => parser.body = WireBody

---------------------------------------------------------------------------
(* SocketFramesReader and the inbound half of relayWebSocketFrames         *)
(* (specification SpecReader)                                              *)
(* A frame is [fin, opcode, payload].  fragmentedPayload is <<>> for null  *)
(* and <<bytes>> otherwise; fragmentedOpcode is NoOpcode for null.         *)

\* the most continuation frames between the first and the last fragment
MaxContinuations == 1

NoOpcode == -1

\* payload[i] ^= mask[i % 4]
Unmask(bytes, mask) ==
  [i \in 1..Len(bytes) |-> ByteXor[bytes[i]][mask[((i - 1) % 4) + 1]]]

Frame(fin, opcode, bytes) == [fin |-> fin, opcode |-> opcode, payload |-> bytes]
NoFrame == Frame(0, NoOpcode, <<>>)

\* a concatenation that puts the later array first
concatUint8ArraysReversed(a, b) == b \o a

\* BaseProxy.concatUint8Arrays
concatUint8Arrays(a, b) == a \o b

RECURSIVE nextFrameKeepContext(_, _, _)
\* a nextFrame that leaves an open fragmentation context in place when a
\* complete non-continuation frame is returned
nextFrameKeepContext(buffer, fragmentedPayload, fragmentedOpcode) ==
  LET wait == [kind |-> "wait", buffer |-> buffer, fragmentedPayload |-> fragmentedPayload,
               fragmentedOpcode |-> fragmentedOpcode, frame |-> NoFrame, error |-> <<>>]
      throw(text) == [wait EXCEPT !.kind = "throw", !.error = text]
  IN IF Len(buffer) < 2 THEN wait
     ELSE
       LET first == buffer[1]
           second == buffer[2]
           fin == (first \div 128) % 2
           opcode == first % 16
           isMasked == (second \div 128) % 2
           len7 == second % 128
       IN IF len7 = 126 /\ Len(buffer) < 4 THEN wait
          ELSE IF len7 = 127 THEN throw(<<"127 length mode is not supported">>)
          ELSE
            LET payloadLen == IF len7 = 126 THEN buffer[3] * 256 + buffer[4] ELSE len7
                lenEnd == IF len7 = 126 THEN 4 ELSE 2
                offset == IF isMasked = 1 THEN lenEnd + 4 ELSE lenEnd
            IN IF Len(buffer) < offset \/ Len(buffer) < offset + payloadLen THEN wait
               ELSE
                 LET raw == SubSeq(buffer, offset + 1, offset + payloadLen)
                     unmasked == IF isMasked = 1
                                THEN Unmask(raw, SubSeq(buffer, lenEnd + 1, lenEnd + 4))
                                ELSE raw
                     rest == SubSeq(buffer, offset + payloadLen + 1, Len(buffer))
                 IN IF opcode = 0
                    THEN IF fragmentedPayload = <<>>
                         THEN [throw(<<"Received continuation frame without initiation">>)
                                 EXCEPT !.buffer = rest]
                         ELSE IF fin = 1
                         THEN [kind |-> "frame", buffer |-> rest, fragmentedPayload |-> <<>>,
                               fragmentedOpcode |-> NoOpcode,
                               frame |-> Frame(1, fragmentedOpcode, concatUint8Arrays(fragmentedPayload[1], unmasked)),
                               error |-> <<>>]
                         ELSE nextFrameKeepContext(rest, <<concatUint8Arrays(fragmentedPayload[1], unmasked)>>, fragmentedOpcode)
                    ELSE IF fin = 0
                         THEN nextFrameKeepContext(rest, <<unmasked>>, opcode)
                         ELSE [kind |-> "frame", buffer |-> rest,
                               fragmentedPayload |-> fragmentedPayload,
                               fragmentedOpcode |-> fragmentedOpcode,
                               frame |-> Frame(fin, opcode, unmasked), error |-> <<>>]

RECURSIVE nextFrame(_, _, _)
\* SocketFramesReader.nextFrame from the top of its loop, with the bytes of
\* buffer at hand, up to the point where ensureBuffer has to read ("wait"),
\* a frame is returned or an error is thrown
nextFrame(buffer, fragmentedPayload, fragmentedOpcode) ==
  LET wait == [kind |-> "wait", buffer |-> buffer, fragmentedPayload |-> fragmentedPayload,
               fragmentedOpcode |-> fragmentedOpcode, frame |-> NoFrame, error |-> <<>>]
      throw(text) == [wait EXCEPT !.kind = "throw", !.error = text]
  IN IF Len(buffer) < 2 THEN wait
     ELSE
       LET first == buffer[1]
           second == buffer[2]
           fin == (first \div 128) % 2
           opcode == first % 16
           isMasked == (second \div 128) % 2
           len7 == second % 128
       IN IF len7 = 126 /\ Len(buffer) < 4 THEN wait
          ELSE IF len7 = 127 THEN throw(<<"127 length mode is not supported">>)
          ELSE
            LET payloadLen == IF len7 = 126 THEN buffer[3] * 256 + buffer[4] ELSE len7
                lenEnd == IF len7 = 126 THEN 4 ELSE 2
                offset == IF isMasked = 1 THEN lenEnd + 4 ELSE lenEnd
            IN IF Len(buffer) < offset \/ Len(buffer) < offset + payloadLen THEN wait
               ELSE
                 LET raw == SubSeq(buffer, offset + 1, offset + payloadLen)
                     unmasked == IF isMasked = 1
                                THEN Unmask(raw, SubSeq(buffer, lenEnd + 1, lenEnd + 4))
                                ELSE raw
                     rest == SubSeq(buffer, offset + payloadLen + 1, Len(buffer))
                 IN IF opcode = 0
                    THEN IF fragmentedPayload = <<>>
                         THEN [throw(<<"Received continuation frame without initiation">>)
                                 EXCEPT !.buffer = rest]
                         ELSE IF fin = 1
                         THEN [kind |-> "frame", buffer |-> rest, fragmentedPayload |-> <<>>,
                               fragmentedOpcode |-> NoOpcode,
                               frame |-> Frame(1, fragmentedOpcode, concatUint8Arrays(fragmentedPayload[1], unmasked)),
                               error |-> <<>>]
                         ELSE nextFrame(rest, <<concatUint8Arrays(fragmentedPayload[1], unmasked)>>, fragmentedOpcode)
                    ELSE IF fin = 0
                         THEN nextFrame(rest, <<unmasked>>, opcode)
                         ELSE [kind |-> "frame", buffer |-> rest, fragmentedPayload |-> <<>>,
                               fragmentedOpcode |-> NoOpcode,
                               frame |-> Frame(fin, opcode, unmasked), error |-> <<>>]

\* the finally block without socket.close()
RelayFinallyLocalOnly(r, how) ==
  [r EXCEPT !.pc = how, !.wsClose = Append(@, 0), !.writerReleased = TRUE]

\* the finally block of the relay task: ws.close(), writer.releaseLock(), socket.close()
RelayFinally(r, how) ==
  [r EXCEPT !.pc = how, !.wsClose = Append(@, 0), !.writerReleased = TRUE, !.socketClosed = TRUE]

RECURSIVE RelayLoop(_)
\* the loop of the relay task from a call of frameReader.nextFrame() up to
\* its next read or its end
RelayLoop(r) ==
  LET f == nextFrame(r.buffer, r.fragmentedPayload, r.fragmentedOpcode)
      took == [r EXCEPT !.buffer = f.buffer, !.fragmentedPayload = f.fragmentedPayload,
                        !.fragmentedOpcode = f.fragmentedOpcode]
      got == [took EXCEPT !.returned = Append(@, f.frame)]
  IN CASE f.kind = "wait" -> took
       [] f.kind = "throw" -> RelayFinally([took EXCEPT !.error = f.error], "failed")
       [] f.kind = "frame" /\ f.frame.opcode \in {1, 2} ->
            RelayLoop([got EXCEPT !.sent = Append(@, f.frame.payload)])
       [] f.kind = "frame" /\ f.frame.opcode = 8 ->
            RelayFinally([got EXCEPT !.wsClose = Append(@, 1000)], "closed")
       [] OTHER -> RelayLoop(got)

\* a client that sends nothing and stays connected
NoClient == [messages |-> <<>>, handed |-> <<>>, settled |-> <<>>, written |-> <<>>,
             logged |-> <<>>, errored |-> FALSE, wsClosed |-> FALSE]

\* new SocketFramesReader(reader, this), and the relay task at its first read
ReaderStart ==
  [pc |-> "reading", buffer |-> <<>>, fragmentedPayload |-> <<>>, fragmentedOpcode |-> NoOpcode,
   returned |-> <<>>, sent |-> <<>>, wsClose |-> <<>>, writerReleased |-> FALSE,
   socketClosed |-> FALSE, error |-> <<>>]

\* ensureBuffer: one reader.read().  A value is appended to the buffer and the
\* relay task runs on; done makes nextFrame return null, which ends the loop;
\* a rejected read is caught by the relay task
ReaderRead ==
  /\ framesReader # <<>> /\ framesReader.pc = "reading" /\ ~inbound.done
  /\ \/ \E k \in 1..(Len(inbound.wire) - inbound.sent) :
          /\ ~framesReader.socketClosed
          /\ inbound' = [inbound EXCEPT !.sent = @ + k]
          /\ framesReader' =
               RelayLoop([framesReader EXCEPT
                  !.buffer = @ \o SubSeq(inbound.wire, inbound.sent + 1, inbound.sent + k)])
     \/ /\ inbound' = [inbound EXCEPT !.done = TRUE]
        /\ framesReader' = RelayFinally(framesReader, "ended")
     \/ /\ inbound' = [inbound EXCEPT !.done = TRUE]
        /\ framesReader' = RelayFinally([framesReader EXCEPT !.error = <<"Network connection lost.">>],
                                        "failed")
  /\ UNCHANGED <<outbound, ctlVars, urlVars, frameVars, httpVars, socksVars, dotVars, isoVars>>

\* what an upstream WebSocket server sends -----------------------------------

\* a frame on the wire: mask is <<>> for an unmasked frame; form is the
\* length form, "short" (7 bits), "ext16" (126 and 2 bytes) or "ext64" (127 and 8 bytes)
WireFrame(fin, opcode, bytes, mask, form) ==
  LET len == Len(bytes)
      first == fin * 128 + opcode
      m == IF mask = <<>> THEN 0 ELSE maskBit
      head == CASE form = "short" -> <<first, m + len>>
                [] form = "ext16" -> <<first, m + 126, len \div 256, len % 256>>
                [] form = "ext64" -> <<first, m + 127, 0, 0, 0, 0, 0, 0, len \div 256, len % 256>>
  IN head \o mask \o (IF mask = <<>> THEN bytes ELSE Unmask(bytes, mask))

\* fragment payloads with the mask and the length form they travel in
Fragments ==
  { [payload |-> <<104, 101, 108>>, mask |-> <<>>, form |-> "short"],
    [payload |-> <<>>, mask |-> <<>>, form |-> "short"],
    [payload |-> <<108, 111>>, mask |-> <<1, 2, 3, 4>>, form |-> "short"],
    [payload |-> <<119, 111, 114, 108, 100>>, mask |-> <<170, 85, 240, 15>>, form |-> "ext16"],
    [payload |-> <<33>>, mask |-> <<>>, form |-> "ext16"] }

RECURSIVE FragmentLists(_)
FragmentLists(n) ==
  IF n = 0 THEN { <<>> } ELSE {Append(l, f) : l \in FragmentLists(n - 1), f \in Fragments}

RECURSIVE WireFragments(_, _, _)
\* the frames of a message sent as the fragments l: the first carries the
\* opcode, the others are continuations, the last has FIN
WireFragments(l, op, i) ==
  IF i > Len(l) THEN <<>>
  ELSE WireFrame(IF i = Len(l) THEN 1 ELSE 0, IF i = 1 THEN op ELSE 0,
                 l[i].payload, l[i].mask, l[i].form)
       \o WireFragments(l, op, i + 1)

RECURSIVE FragmentPayloads(_)
FragmentPayloads(l) ==
  IF l = <<>> THEN <<>> ELSE Head(l).payload \o FragmentPayloads(Tail(l))

InboundCase(kind, op, fragments, wire) ==
  [kind |-> kind, op |-> op, fragments |-> fragments, wire |-> wire, sent |-> 0, done |-> FALSE]

\* what upstream sends: a fragmented message; a message in one frame; a
\* fragment in the 64-bit length form; a continuation with no message open;
\* a message abandoned for a new one or for a control frame; a close frame
\* followed by a text frame
InboundCases ==
  { InboundCase("fragmented", op, l, WireFragments(l, op, 1)) :
      op \in {1, 2}, l \in UNION {FragmentLists(n) : n \in 2..(MaxContinuations + 2)} }
  \cup { InboundCase("whole", op, <<f>>, WireFragments(<<f>>, op, 1)) : op \in {1, 2}, f \in Fragments }
  \cup { InboundCase("ext64", 1, <<>>,
           WireFrame(0, 1, <<104>>, <<>>, "ext64") \o WireFrame(1, 0, <<105>>, <<>>, "short")) }
  \cup { InboundCase("orphan", 0, <<>>,
           WireFrame(fin, 0, <<104>>, <<>>, "short") \o WireFrame(1, 1, <<105>>, <<>>, "short")) :
           fin \in {0, 1} }
  \cup { InboundCase("restart", op, <<>>,
           WireFrame(0, 1, <<104>>, <<>>, "short") \o WireFrame(fin, op, <<105>>, <<>>, "short")
           \o WireFrame(1, 0, <<106>>, <<>>, "short")) :
           fin \in {0, 1}, op \in {1, 2, 8, 9} }
  \cup { InboundCase("close", 8, <<>>,
           WireFrame(1, 8, <<3, 232>>, <<>>, "short") \o WireFrame(1, 1, <<105>>, <<>>, "short")) }

InitReader ==
  /\ inbound \in InboundCases
  /\ framesReader = ReaderStart
  /\ outbound = NoClient
  /\ CtlIdle /\ UrlIdle /\ FrameIdle /\ HttpIdle /\ SocksIdle /\ DotIdle /\ IsoIdle

NextReader == ReaderRead

SpecReader == InitReader /\ [][NextReader]_vars

\* C12: for an upstream sequence of one non-FIN data frame with opcode op in
\* {1,2}, zero or more non-FIN continuation frames and one FIN continuation
\* frame, nextFrame returns exactly one frame, with opcode op and the
\* concatenation of the fragment payloads in order; nothing is delivered to
\* the local WebSocket before the FIN fragment has arrived, and the
\* fragmentation context is empty afterwards.
C12_FragmentReassembly ==
  (inbound.kind = "fragmented" /\ framesReader.error = <<>>) =>
    LET whole == Frame(1, inbound.op, FragmentPayloads(inbound.fragments))
    IN /\ inbound.sent < Len(inbound.wire) =>
            /\ framesReader.returned = <<>> /\ framesReader.sent = <<>>
            /\ inbound.done \/ framesReader.pc = "reading"
       /\ inbound.sent = Len(inbound.wire) =>
            /\ framesReader.returned = <<whole>>
            /\ framesReader.sent = <<whole.payload>>
            /\ framesReader.fragmentedPayload = <<>>
            /\ framesReader.fragmentedOpcode = NoOpcode
            /\ framesReader.buffer = <<>>

\* "hel" + "lo" (masked) + "world" (masked, 16-bit length form) arrived as a
\* binary message and was handed to the local WebSocket as one payload
C12_Witness ==
  /\ inbound.kind = "fragmented" /\ inbound.op = 2 /\ Len(inbound.fragments) = 3
  /\ ~inbound.done /\ framesReader.pc = "reading"
  /\ framesReader.sent = << <<104, 101, 108, 108, 111, 119, 111, 114, 108, 100>> >>

---------------------------------------------------------------------------
(* Socks5Proxy.socks5Connect and the first write of its callers            *)
(* (specification SpecSocks)                                               *)
(* socks.log is what went over the stream to the SOCKS server, in order:   *)
(* writes ("w") and resolved reads ("r").  A read that resolved with done  *)
(* has eof TRUE: its value is undefined.                                   *)

\* the longest user name and password, in bytes
MaxCredential == 2

Undefined == -1

\* res[i] of a Uint8Array (i counted from 0): undefined past its end
ByteAt(res, i) == IF i < Len(res) THEN res[i + 1] ELSE Undefined

\* new Uint8Array([5, 2, 0, 2])
SocksGreeting == <<5, 2, 0, 2>>

\* [1, username.length, ...username, password.length, ...password]
AuthRequest(username, password) ==
  <<1, Len(username)>> \o username \o <<Len(password)>> \o password

\* a CONNECT message with the two port bytes in the other order
SocksRequestLowByteFirst(addressType, addressRemote, portRemote) ==
  <<5, 1, 0, 3, Len(addressRemote)>> \o addressRemote
    \o <<BitAnd(portRemote, 255), portRemote \div 256>>

\* [5, 1, 0, ...DSTADDR, portRemote >> 8, portRemote & 0xff] with DSTADDR of
\* addressType 2, the only one connectHttp and connectWebSocket pass
SocksRequest(addressType, addressRemote, portRemote) ==
  <<5, 1, 0, 3, Len(addressRemote)>> \o addressRemote
    \o <<portRemote \div 256, BitAnd(portRemote, 255)>>

Wrote(what, bytes) == [dir |-> "w", what |-> what, bytes |-> bytes, eof |-> FALSE]
Got(what, res) == [dir |-> "r", what |-> what, bytes |-> res.bytes, eof |-> res.eof]

\* what a read resolved with: a value, or done
SocksReply(bytes) == [bytes |-> bytes, eof |-> FALSE]
ReplyEof == [bytes |-> <<>>, eof |-> TRUE]

\* what reader.read() may resolve with after the greeting
MethodReplies ==
  {SocksReply(b) : b \in { <<5, 0>>, <<5, 2>>, <<5, 255>>, <<5, 1>>, <<4, 0>>, <<5>>, <<5, 0, 0>> }}
  \cup {ReplyEof}

\* ... after the username/password message
AuthReplies == {SocksReply(b) : b \in { <<1, 0>>, <<1, 1>>, <<5, 0>>, <<1>> }} \cup {ReplyEof}

\* ... after the CONNECT message
ConnectReplies ==
  {SocksReply(b) : b \in { <<5, 0, 0, 1, 0, 0, 0, 0, 0, 0>>, <<5, 5, 0, 1, 0, 0, 0, 0, 0, 0>>,
                      <<5, 1, 0, 1, 0, 0, 0, 0, 0, 0>>, <<5, 0>>, <<5>> }}
  \cup {ReplyEof}

\* a check of the CONNECT reply that accepts every REP
ConnectOpenedAnyRep(res) == TRUE

\* res[1] === 0x00 of the CONNECT reply
ConnectOpened(res) == ByteAt(res, 1) = 0

\* an exception leaves socks5Connect
SocksThrow(s, text) == [s EXCEPT !.pc = "failed", !.error = text]

TypeErrorUndefined == <<"Cannot read properties of undefined">>

WriteError == <<"Network connection lost.">>

\* the first bytes the caller writes to the socket that socks5Connect
\* returned: "GET " of the handshake (connectWebSocket), "POST " of the
\* request line (connectHttp)
TunnelHead(via) == IF via = "ws" THEN <<71, 69, 84, 32>> ELSE <<80, 79, 83, 84, 32>>

\* connect() and await writer.write(socksGreeting)
SocksGreet ==
  /\ socks # <<>> /\ socks.pc = "start"
  /\ \/ socks' = [socks EXCEPT !.pc = "method", !.log = Append(@, Wrote("greeting", SocksGreeting))]
     \/ socks' = SocksThrow(socks, WriteError)
  /\ UNCHANGED <<socksCase, ctlVars, urlVars, frameVars, httpVars, readerVars, dotVars, isoVars>>

\* await writer.write(socksRequest), after the log so far
WriteSocksRequest(s) ==
  [s EXCEPT !.pc = "connect",
            !.log = Append(@, Wrote("connect",
                       SocksRequest(2, socksCase.addressRemote, socksCase.portRemote)))]

\* the read after the greeting and what follows up to the next read
SocksMethod ==
  /\ socks # <<>> /\ socks.pc = "method"
  /\ \E res \in MethodReplies :
       LET s == [socks EXCEPT !.log = Append(@, Got("method", res))]
       IN socks' \in
            IF res.eof THEN {SocksThrow(s, TypeErrorUndefined)}
            ELSE IF ByteAt(res.bytes, 0) # 5
            THEN {SocksThrow(s, <<"socks server version error: ", ByteAt(res.bytes, 0), " expected: 5">>)}
            ELSE IF ByteAt(res.bytes, 1) = 255
            THEN {SocksThrow(s, <<"no acceptable methods">>)}
            ELSE IF ByteAt(res.bytes, 1) = 2
            THEN IF socksCase.username = <<>> \/ socksCase.password = <<>>
                 THEN {SocksThrow(s, <<"please provide username/password">>)}
                 ELSE {[s EXCEPT !.pc = "auth",
                          !.log = Append(@, Wrote("auth",
                                     AuthRequest(socksCase.username, socksCase.password)))],
                       SocksThrow(s, WriteError)}
            ELSE {WriteSocksRequest(s), SocksThrow(s, WriteError)}
  /\ UNCHANGED <<socksCase, ctlVars, urlVars, frameVars, httpVars, readerVars, dotVars, isoVars>>

\* the read after the username/password message
SocksAuth ==
  /\ socks # <<>> /\ socks.pc = "auth"
  /\ \E res \in AuthReplies :
       LET s == [socks EXCEPT !.log = Append(@, Got("auth", res))]
       IN socks' \in
            IF res.eof THEN {SocksThrow(s, TypeErrorUndefined)}
            ELSE IF ByteAt(res.bytes, 0) # 1 \/ ByteAt(res.bytes, 1) # 0
            THEN {SocksThrow(s, <<"fail to auth socks server">>)}
            ELSE {WriteSocksRequest(s), SocksThrow(s, WriteError)}
  /\ UNCHANGED <<socksCase, ctlVars, urlVars, frameVars, httpVars, readerVars, dotVars, isoVars>>

\* the read after the CONNECT message; the socket is returned when REP is 0
SocksConnectReply ==
  /\ socks # <<>> /\ socks.pc = "connect"
  /\ \E res \in ConnectReplies :
       LET s == [socks EXCEPT !.log = Append(@, Got("connect", res))]
       IN socks' =
            IF res.eof THEN SocksThrow(s, TypeErrorUndefined)
            ELSE IF ConnectOpened(res.bytes) THEN [s EXCEPT !.pc = "open"]
            ELSE SocksThrow(s, <<"fail to open socks connection">>)
  /\ UNCHANGED <<socksCase, ctlVars, urlVars, frameVars, httpVars, readerVars, dotVars, isoVars>>

\* the caller writes its request line or handshake to the returned socket
TunnelWrite ==
  /\ socks # <<>> /\ socks.pc = "open"
  /\ socks' = [socks EXCEPT !.pc = "tunnel", !.log = Append(@, Wrote("tunnel", TunnelHead(socksCase.via)))]
  /\ UNCHANGED <<socksCase, ctlVars, urlVars, frameVars, httpVars, readerVars, dotVars, isoVars>>

\* inputs ------------------------------------------------------------------

\* user names and passwords: absent or empty, and up to MaxCredential bytes
Credentials == {[i \in 1..n |-> 117] : n \in 0..MaxCredential}

\* destination host names of 1, 11 and 255 bytes
HostNames == {[i \in 1..n |-> 97 + (i % 26)] : n \in {1, 11, 255}}

\* destination ports
Ports == {0, 80, 255, 256, 443, 8080, 65535}

SocksCases ==
  [via : {"http", "ws"}, username : Credentials, password : Credentials,
   addressRemote : HostNames, portRemote : Ports]

InitSocks ==
  /\ socksCase \in SocksCases
  /\ socks = [pc |-> "start", log |-> <<>>, error |-> <<>>]
  /\ CtlIdle /\ UrlIdle /\ FrameIdle /\ HttpIdle /\ ReaderIdle /\ DotIdle /\ IsoIdle

NextSocks ==
  \/ SocksGreet
  \/ SocksMethod
  \/ SocksAuth
  \/ SocksConnectReply
  \/ TunnelWrite

SpecSocks == InitSocks /\ [][NextSocks]_vars

\* res[0] and res[1]
FirstTwo(res) == <<ByteAt(res, 0), ByteAt(res, 1)>>

IsWrite(e, what) == e.dir = "w" /\ e.what = what
IsRead(e, what) == e.dir = "r" /\ e.what = what /\ ~e.eof

\* C13: the first bytes written to the SOCKS server are the greeting
\* 05 02 00 02; the username/password message is written only after the
\* server selected method 0x02; the CONNECT request is written only after the
\* greeting reply and, for method 0x02, after the auth reply 01 00; a method
\* reply 0xFF fails with 'no acceptable methods', a bad auth reply fails, a
\* CONNECT reply with REP other than 0x00 fails with 'fail to open socks
\* connection'; no byte of the caller is written to the stream before the
\* CONNECT reply with REP 0x00 was received.
C13_NegotiationOrder ==
  LET log == socks.log
      failedWith(text) == socks.pc = "failed" /\ socks.error = text
  IN /\ log # <<>> => log[1] = Wrote("greeting", SocksGreeting)
     /\ \A i \in DOMAIN log :
          /\ IsWrite(log[i], "auth") =>
               i = 3 /\ IsRead(log[2], "method") /\ ByteAt(log[2].bytes, 1) = 2
          /\ IsWrite(log[i], "connect") =>
               \/ i = 3 /\ IsRead(log[2], "method") /\ ByteAt(log[2].bytes, 1) \notin {2, 255}
               \/ /\ i = 5 /\ IsRead(log[2], "method") /\ ByteAt(log[2].bytes, 1) = 2
                  /\ IsWrite(log[3], "auth")
                  /\ IsRead(log[4], "auth") /\ FirstTwo(log[4].bytes) = <<1, 0>>
          /\ IsWrite(log[i], "tunnel") =>
               /\ i > 1 /\ IsRead(log[i - 1], "connect") /\ ByteAt(log[i - 1].bytes, 1) = 0
               /\ \E j \in 1..(i - 2) : IsWrite(log[j], "connect")
          /\ (IsRead(log[i], "method") /\ FirstTwo(log[i].bytes) = <<5, 255>>) =>
               failedWith(<<"no acceptable methods">>)
          /\ (IsRead(log[i], "auth") /\ FirstTwo(log[i].bytes) # <<1, 0>>) =>
               failedWith(<<"fail to auth socks server">>)
          /\ (IsRead(log[i], "connect") /\ ByteAt(log[i].bytes, 1) # 0) =>
               failedWith(<<"fail to open socks connection">>)

\* the server asked for username/password, accepted them and opened the
\* connection; the caller has written its request
C13_Witness ==
  /\ socks.pc = "tunnel" /\ Len(socks.log) = 7
  /\ IsWrite(socks.log[3], "auth") /\ IsWrite(socks.log[7], "tunnel")

\* C14: for a destination host name of n bytes (1 <= n <= 255) and a port p
\* in 0..65535 the CONNECT message written is 05 01 00 03 n, the n name
\* bytes, p div 256 and p mod 256; both callers use this domain form.
C14_ConnectEncoding ==
  \A i \in DOMAIN socks.log :
    IsWrite(socks.log[i], "connect") =>
      LET b == socks.log[i].bytes
          n == Len(socksCase.addressRemote)
      IN /\ Len(b) = n + 7
         /\ SubSeq(b, 1, 5) = <<5, 1, 0, 3, n>>
         /\ SubSeq(b, 6, n + 5) = socksCase.addressRemote
         /\ b[n + 6] = socksCase.portRemote \div 256
         /\ b[n + 7] = socksCase.portRemote % 256
         /\ \A k \in DOMAIN b : b[k] \in 0..255

\* a CONNECT for a 255-byte name and port 8080 (1f 90) was written
C14_Witness ==
  /\ Len(socksCase.addressRemote) = 255 /\ socksCase.portRemote = 8080
  /\ \E i \in DOMAIN socks.log :
       /\ IsWrite(socks.log[i], "connect")
       /\ SubSeq(socks.log[i].bytes, 261, 262) = <<31, 144>>

---------------------------------------------------------------------------
(* The socket exchange of DoTProxy.handleDnsQuery (specification SpecDot)  *)
(* responseChunks is kept as the concatenation of its chunks, which is all *)
(* the code uses of it.                                                    *)

\* a request that carries the length with its low byte first
DotRequestLittleEndian(clientDnsQuery) ==
  LET queryLength == Len(clientDnsQuery)
  IN <<queryLength % 256, (queryLength \div 256) % 256>> \o clientDnsQuery

\* dotRequest: setUint16(0, queryLength, false), then the query
DotRequest(clientDnsQuery) ==
  LET queryLength == Len(clientDnsQuery)
  IN <<(queryLength \div 256) % 256, queryLength % 256>> \o clientDnsQuery

\* getUint16(0, false) and fullResponse.slice(2, 2 + responseLength); the
\* DataView throws a RangeError when fullResponse has fewer than 2 bytes
DotResponse(fullResponse) ==
  IF Len(fullResponse) < 2
  THEN [thrown |-> TRUE, body |-> <<>>]
  ELSE LET responseLength == fullResponse[1] * 256 + fullResponse[2]
           end == IF Len(fullResponse) < 2 + responseLength THEN Len(fullResponse)
                  ELSE 2 + responseLength
       IN [thrown |-> FALSE, body |-> SubSeq(fullResponse, 3, end)]

\* the socket path failed: the catch block takes over
DotCatch(d, text) == [d EXCEPT !.pc = "fallback", !.error = text]

DotStart ==
  [pc |-> "query", clientDnsQuery |-> <<>>, written |-> <<>>, fullResponse |-> <<>>,
   response |-> [status |-> 0, contentType |-> <<>>, body |-> <<>>], error |-> <<>>]

\* await req.arrayBuffer()
DotReadQuery ==
  /\ dot # <<>> /\ dot.pc = "query"
  /\ \/ dot' = [dot EXCEPT !.pc = "write", !.clientDnsQuery = dotCase.query]
     \/ dot' = DotCatch(dot, <<"Network connection lost.">>)
  /\ UNCHANGED <<dotCase, ctlVars, urlVars, frameVars, httpVars, readerVars, socksVars, isoVars>>

\* connect(...) and await writer.write(dotRequest)
DotWrite ==
  /\ dot # <<>> /\ dot.pc = "write"
  /\ \/ dot' = [dot EXCEPT !.pc = "read", !.written = Append(@, DotRequest(dot.clientDnsQuery))]
     \/ dot' = DotCatch(dot, <<"proxy request failed">>)
  /\ UNCHANGED <<dotCase, ctlVars, urlVars, frameVars, httpVars, readerVars, socksVars, isoVars>>

\* one reader.read() of the loop; on done the response is built
DotRead ==
  /\ dot # <<>> /\ dot.pc = "read" /\ ~dotCase.done
  /\ \/ \E k \in 1..(Len(dotCase.wire) - dotCase.sent) :
          /\ dotCase' = [dotCase EXCEPT !.sent = @ + k]
          /\ dot' = [dot EXCEPT !.fullResponse =
                       @ \o SubSeq(dotCase.wire, dotCase.sent + 1, dotCase.sent + k)]
     \/ /\ dotCase' = [dotCase EXCEPT !.done = TRUE]
        /\ LET r == DotResponse(dot.fullResponse)
           IN dot' = IF r.thrown THEN DotCatch(dot, <<"Offset is outside the bounds of the DataView">>)
                     ELSE [dot EXCEPT !.pc = "done",
                             !.response = [status |-> 200,
                                           contentType |-> <<"application/dns-message">>,
                                           body |-> r.body]]
     \/ /\ dotCase' = [dotCase EXCEPT !.done = TRUE]
        /\ dot' = DotCatch(dot, <<"Network connection lost.">>)
  /\ UNCHANGED <<ctlVars, urlVars, frameVars, httpVars, readerVars, socksVars, isoVars>>

\* inputs ------------------------------------------------------------------

\* DNS messages of len bytes
DnsMessage(len, seed) == [i \in 1..len |-> (seed + 3 * i) % 256]

DnsQueries == {DnsMessage(len, 1) : len \in {0, 1, 12, 255, 256, 300}}

\* what the DoT server sends before it closes: a length prefix and a message
\* of that length, alone or followed by more bytes; a message cut short;
\* fewer than two bytes
DotWires ==
  { <<len \div 256, len % 256>> \o DnsMessage(len, 7) \o extra :
      len \in {0, 1, 12, 257}, extra \in { <<>>, <<0, 1, 9>> } }
  \cup { <<0, 12>> \o DnsMessage(5, 7), <<0>>, <<>> }

InitDot ==
  /\ dotCase \in [query : DnsQueries, wire : DotWires, sent : {0}, done : {FALSE}]
  /\ dot = DotStart
  /\ CtlIdle /\ UrlIdle /\ FrameIdle /\ HttpIdle /\ ReaderIdle /\ SocksIdle /\ IsoIdle

NextDot ==
  \/ DotReadQuery
  \/ DotWrite
  \/ DotRead

SpecDot == InitDot /\ [][NextDot]_vars

\* the big-endian value of the first two bytes of the wire
DotWireLength == dotCase.wire[1] * 256 + dotCase.wire[2]

\* C15: for a DNS query of length L <= 65535 the bytes written to the DoT
\* server are the 2-byte big-endian encoding of L followed by the query, in
\* a single write; after upstream was read to EOF, in any segmentation, the
\* response body is the R bytes that follow the first two bytes, R being the
\* big-endian value of those two bytes, with content-type
\* application/dns-message.
C15_DotFraming ==
  /\ dot.pc \in {"read", "done"} =>
       LET L == Len(dotCase.query)
       IN dot.written = << <<L \div 256, L % 256>> \o dotCase.query >>
  /\ dot.pc \in {"query", "write"} => dot.written = <<>>
  /\ ( /\ dot.pc = "done" /\ dotCase.sent = Len(dotCase.wire)
       /\ Len(dotCase.wire) >= 2 + DotWireLength ) =>
       /\ dot.response.body = SubSeq(dotCase.wire, 3, 2 + DotWireLength)
       /\ dot.response.contentType = <<"application/dns-message">>
       /\ dot.response.status = 200

\* a 300-byte query went out as 01 2c and the query; a 257-byte answer
\* followed by three more bytes came back
C15_Witness ==
  /\ dot.pc = "done" /\ dotCase.sent = Len(dotCase.wire)
  /\ Len(dotCase.query) = 300 /\ SubSeq(dot.written[1], 1, 2) = <<1, 44>>
  /\ Len(dotCase.wire) = 262 /\ Len(dot.response.body) = 257

---------------------------------------------------------------------------
(* Claims on the DNS transports (specification Spec) *)

\* the socket exchange of the DNS transport kind failed after req.arrayBuffer() returned
DnsSocketFailed(kind) ==
  /\ cur.proxy = kind /\ attempts # <<>> /\ attempts[1].method \in {"handleDnsQuery", "connect"}
  /\ errs # <<>> /\ bodyPos = Len(cur.body)

\* the fetches the fallback of a DNS transport made
DnsFallbackFetches == {ev \in events : ev.role = "fallback" /\ ev.op = "fetch"}

\* C16: when a step of the DoT socket exchange fails after the query body
\* was read, the DoH-fetch fallback is invoked exactly once with a body
\* identical to the original query bytes and its response is returned; when
\* the fallback fetch also fails, the client receives a 502 response.
C16_DotFallback ==
  (DnsSocketFailed("DoT") /\ pc \in {"dnsfb_wait", "done"}) =>
    /\ Cardinality(DnsFallbackFetches) = 1
    /\ \A ev \in DnsFallbackFetches : ev.body = req.body /\ ev.to = DOH_SERVER
    /\ pc = "done" => \/ response = Upstream(200, "fallback")
                      \/ response.status = 502

\* C17: when a step of the raw TLS DoH exchange fails (connect, write, read,
\* a response without CRLF CRLF), FetchProxy.handleDnsQuery is invoked with a
\* request whose body is the buffered query bytes, not the consumed body
\* stream, and its response is returned; when that fallback fails too, the
\* client receives a 502 response.
C17_DohFallback ==
  (DnsSocketFailed("DoH") /\ pc \in {"dnsfb_wait", "done"}) =>
    /\ Len(attempts) = 2
    /\ attempts[2].proxy = "Fetch" /\ attempts[2].method = "handleDnsQuery"
    /\ attempts[2].body = req.body
    /\ Cardinality(DnsFallbackFetches) = 1
    /\ \A ev \in DnsFallbackFetches : ev.by = "Fetch" /\ ev.body = req.body
    /\ pc = "done" => \/ response = Upstream(200, "fallback")
                      \/ response.status = 502 /\ response.via = "fallback"

\* the DoH reply had no CRLF CRLF, the fetch fallback was given the two
\* chunks of the query and failed as well: 502
C17_Witness ==
  /\ DnsSocketFailed("DoH") /\ pc = "done"
  /\ errs = <<Error(<<"Could not find HTTP header/body separator in response.">>)>>
  /\ Len(req.body) = 2 /\ attempts[2].body = req.body
  /\ response.status = 502

\* the request is not a POST of type application/dns-message, and a DoH or
\* DoT transport was asked to handle it
DnsRequestRefused ==
  /\ attempts # <<>> /\ attempts[1].proxy \in {"DoH", "DoT"}
  /\ \/ req.method # "POST"
     \/ ~(\E h \in req.headers :
            h.k = <<"content-type">> /\ h.v = <<"application/dns-message">>)

\* C18: if the method is not POST or the Content-Type is not
\* application/dns-message, handleDnsQuery of the DoH and DoT transports
\* returns 400 without reading the request body, without opening a socket
\* and without attempting the fetch fallback.
C18_DnsGate ==
  DnsRequestRefused =>
    /\ pc = "done"
    /\ response = Reply(400, attempts[1].proxy, "primary")
    /\ bodyPos = 0 /\ events = {} /\ errs = <<>>
    /\ Len(attempts) = 1

\* a POST with a body but without the DNS content type was refused by DoT
C18_Witness ==
  /\ DnsRequestRefused /\ attempts[1].proxy = "DoT" /\ attempts[1].method = "handleDnsQuery"
  /\ req.method = "POST" /\ Len(req.body) = 2
  /\ response.status = 400

---------------------------------------------------------------------------
(* Claims on the raw-socket paths (specification Spec) *)

\* the sockets SocketProxy.connectHttp opened
SocketHttpConnects ==
  {ev \in events : ev.by = "Socket" /\ ev.op = "connect" /\ ~IsWebSocket(req)}

\* C19: on the HTTP path of the Socket transport the socket is opened to
\* dst.hostname on the port given in the destination URL when there is one,
\* otherwise on 443 for https and 80 for http, and TLS is on if and only if
\* the destination scheme is https.
C19_SocketTarget ==
  \A ev \in SocketHttpConnects :
    LET dst == ParseUrl(attempts[1].dst)
        https == dst.protocol = <<"https", ":">>
    IN /\ ev.to = dst.hostname
       /\ ev.port = IF dst.port # <<>> THEN dst.port[1] ELSE IF https THEN "443" ELSE "80"
       /\ ev.secureTransport = "on" <=> https

\* a WebSocket upgrade request handled by the Socket or Socks5 transport
\* with a destination URL that parses
WebSocketAttempt ==
  /\ attempts # <<>> /\ attempts[1].proxy \in {"Socket", "Socks5"}
  /\ IsWebSocket(req) /\ ParseUrl(attempts[1].dst).ok

\* the destination scheme is ws or wss
WebSocketScheme == attempts[1].dst[1] \in {"ws", "wss"}

\* the handshake replies read, and the relays started
HandshakeRepliesRead == {ev.body : ev \in {e \in events : e.op = "reply"}}
RelaysStarted == {ev \in events : ev.op = "relay"}

\* the reply has both '101' and 'Switching Protocols'
HasBoth(text) ==
  /\ \E i \in DOMAIN text : text[i] = "101"
  /\ \E i \in DOMAIN text : text[i] = "Switching Protocols"

\* C20: on the Socket and Socks5 transports a 101 response is returned, and
\* the frame relay started, only if the destination scheme is ws or wss and
\* the upstream handshake reply contains both '101' and 'Switching
\* Protocols'; with any other scheme the transport returns 400 and opens no
\* upstream socket; with a failed handshake no relay is started and no 101
\* is returned.
C20_UpgradeGating ==
  /\ (response.status = 101 \/ RelaysStarted # {}) =>
       /\ WebSocketAttempt /\ WebSocketScheme
       /\ response.status = 101 /\ RelaysStarted # {}
       /\ HandshakeRepliesRead # {} /\ \A text \in HandshakeRepliesRead : HasBoth(text)
  /\ (WebSocketAttempt /\ ~WebSocketScheme) =>
       /\ pc = "done" /\ response = Reply(400, attempts[1].proxy, "primary")
       /\ events = {}
  /\ (\E text \in HandshakeRepliesRead : ~HasBoth(text)) =>
       /\ RelaysStarted = {} /\ response.status # 101
       /\ pc = "done"

\* wss://echo.example through the SOCKS5 server: the reply was 101 Switching
\* Protocols, the relay runs and 101 went back
C20_Witness ==
  /\ WebSocketAttempt /\ WebSocketScheme /\ attempts[1].proxy = "Socks5"
  /\ response = Reply(101, "Socks5", "primary") /\ RelaysStarted # {}

---------------------------------------------------------------------------
(* relayWebSocketFrames: both directions and the close listener            *)
(* (specification SpecRelay)                                               *)
(* outbound.handed holds the frames given to writer.write, in call order;  *)
(* outbound.settled holds, per write, "pending", "ok" or "error";          *)
(* outbound.written holds the frames that reached the upstream socket.     *)
(* The upstream socket is closed when framesReader.socketClosed is TRUE.   *)

\* the most messages the client sends in one session
MaxMessages == 2

\* event.data as bytes: "hi" and "!"
ClientPayloads == { <<104, 105>>, <<33>> }

RECURSIVE MessageLists(_)
MessageLists(n) ==
  IF n = 0 THEN { <<>> }
  ELSE MessageLists(n - 1) \cup
       {Append(l, m) : l \in {k \in MessageLists(n - 1) : Len(k) = n - 1}, m \in ClientPayloads}

\* a writer that puts the newest frame in front of those it was given before
WriterWriteFront(o, frame) ==
  [o EXCEPT !.handed = <<frame>> \o @, !.settled = <<"pending">> \o @]

\* writer.write(frame): one call per frame, queued behind the earlier calls
WriterWrite(o, frame) ==
  [o EXCEPT !.handed = Append(@, frame), !.settled = Append(@, "pending")]

\* a close listener that leaves the upstream socket alone
CloseListenerAbsent(r) == r

\* ws.addEventListener("close", () => socket.close())
CloseListener(r) == [r EXCEPT !.socketClosed = TRUE]

\* the index of the oldest write that has not settled, 0 if there is none
OldestPending(o) ==
  IF \E i \in 1..Len(o.settled) : o.settled[i] = "pending"
  THEN CHOOSE i \in 1..Len(o.settled) :
         o.settled[i] = "pending" /\ \A j \in 1..(i - 1) : o.settled[j] # "pending"
  ELSE 0

\* the "message" listener: the payload is packed and handed to the writer
\* in the same turn; a write on a released writer is rejected at once and
\* the rejection is logged
OnMessage ==
  /\ framesReader # <<>> /\ outbound # <<>>
  /\ ~outbound.wsClosed
  /\ Len(outbound.handed) < Len(outbound.messages)
  /\ \E mask \in {<<1, 2, 3, 4>>, <<170, 85, 240, 15>>} :
       LET frame == PackTextFrame(outbound.messages[Len(outbound.handed) + 1], mask).frame
           o == WriterWrite(outbound, frame)
           i == Len(o.handed)
       IN outbound' = IF framesReader.writerReleased
                      THEN [o EXCEPT !.settled[i] = "error", !.logged = Append(@, i)]
                      ELSE o
  /\ UNCHANGED <<inbound, framesReader, ctlVars, urlVars, frameVars, httpVars, socksVars, dotVars, isoVars>>

\* the oldest pending write settles: its frame reaches the socket, or the
\* write is rejected (always so once the socket is closed or the stream has
\* failed) and the listener logs "Remote write error"
WriteSettle ==
  /\ framesReader # <<>> /\ outbound # <<>>
  /\ OldestPending(outbound) # 0
  /\ LET i == OldestPending(outbound)
     IN \/ /\ ~framesReader.socketClosed /\ ~outbound.errored
           /\ outbound' = [outbound EXCEPT !.settled[i] = "ok",
                                           !.written = Append(@, outbound.handed[i])]
        \/ outbound' = [outbound EXCEPT !.settled[i] = "error", !.errored = TRUE,
                                        !.logged = Append(@, i)]
  /\ UNCHANGED <<inbound, framesReader, ctlVars, urlVars, frameVars, httpVars, socksVars, dotVars, isoVars>>

\* the client's WebSocket closes: the "close" listener runs
ClientClose ==
  /\ framesReader # <<>> /\ outbound # <<>>
  /\ ~outbound.wsClosed
  /\ outbound' = [outbound EXCEPT !.wsClosed = TRUE]
  /\ framesReader' = CloseListener(framesReader)
  /\ UNCHANGED <<inbound, ctlVars, urlVars, frameVars, httpVars, socksVars, dotVars, isoVars>>

\* what upstream sends in a relay session: a close frame followed by a text
\* frame, a frame in the 64-bit length form, a continuation with no message
\* open, a text message in one frame, a message in two fragments
RelayInbound ==
  { c \in InboundCases :
      \/ c.kind \in {"close", "ext64", "orphan"}
      \/ c.kind \in {"whole", "fragmented"} /\ c.op = 1 /\ Len(c.wire) <= 6 }

InitRelay ==
  /\ inbound \in RelayInbound
  /\ framesReader = ReaderStart
  /\ outbound \in {[NoClient EXCEPT !.messages = l] : l \in MessageLists(MaxMessages)}
  /\ CtlIdle /\ UrlIdle /\ FrameIdle /\ HttpIdle /\ SocksIdle /\ DotIdle /\ IsoIdle

NextRelay ==
  \/ ReaderRead
  \/ OnMessage
  \/ WriteSettle
  \/ ClientClose

SpecRelay == InitRelay /\ [][NextRelay]_vars

\* the relay task is over
ReaderEnded(r) == r.pc \in {"closed", "ended", "failed"}

\* the payloads of the data frames among fs, in order
RECURSIVE DataPayloads(_)
DataPayloads(fs) ==
  IF fs = <<>> THEN <<>>
  ELSE (IF Head(fs).opcode \in {1, 2} THEN <<Head(fs).payload>> ELSE <<>>)
       \o DataPayloads(Tail(fs))

\* C21: a close frame (opcode 8) from upstream closes the local WebSocket
\* with code 1000 and ends the relay loop; whenever the inbound reader ends
\* (close frame, upstream end of stream, read error, a frame with
\* len7 = 127, a continuation frame with no message open), the local
\* WebSocket and the upstream socket are both closed, and from then on no
\* upstream frame is delivered to the local WebSocket.
C21_UpstreamTeardown ==
  /\ [](/\ (\E i \in 1..Len(framesReader.returned) : framesReader.returned[i].opcode = 8) =>
             /\ framesReader.pc = "closed"
             /\ framesReader.returned[Len(framesReader.returned)].opcode = 8
             /\ framesReader.wsClose[1] = 1000
        /\ ReaderEnded(framesReader) =>
             /\ framesReader.wsClose # <<>>
             /\ framesReader.socketClosed
             /\ framesReader.sent = DataPayloads(framesReader.returned))
  /\ [][ReaderEnded(framesReader) =>
          /\ ReaderEnded(framesReader')
          /\ framesReader'.sent = framesReader.sent
          /\ framesReader'.socketClosed]_vars

\* upstream sent a close frame and a text frame in one segment: the local
\* WebSocket was closed with 1000, the socket is closed, the text frame was
\* not delivered
C21_Witness ==
  /\ inbound.kind = "close" /\ inbound.sent = Len(inbound.wire)
  /\ framesReader.pc = "closed"
  /\ framesReader.wsClose = <<1000, 0>>
  /\ framesReader.socketClosed /\ ~outbound.wsClosed
  /\ framesReader.sent = <<>>
  /\ framesReader.buffer # <<>>

\* C22: when the client's WebSocket closes at any moment of a relay session
\* (also while the relay task waits in a read or a write to upstream is
\* pending), the upstream socket is closed, and from then on no frame is
\* handed to the writer and no frame reaches the upstream socket.
C22_ClientCancellation ==
  /\ [](outbound.wsClosed => framesReader.socketClosed)
  /\ [][outbound.wsClosed =>
          /\ outbound'.wsClosed
          /\ outbound'.written = outbound.written
          /\ outbound'.handed = outbound.handed]_vars

\* the client closed while the relay task was waiting in a read and one
\* write was pending: the socket is closed, the write was rejected and its
\* frame never reached upstream
C22_Witness ==
  /\ outbound.wsClosed /\ framesReader.socketClosed
  /\ framesReader.pc = "reading" /\ inbound.sent > 0 /\ ~inbound.done
  /\ Len(outbound.messages) = 2
  /\ Len(outbound.handed) = 1 /\ outbound.settled = <<"error">>
  /\ outbound.written = <<>>

\* what packTextFrame makes of the message with the mask that frame carries
FrameOf(message, frame) ==
  IF Len(frame) >= 6 THEN PackTextFrame(message, SubSeq(frame, 3, 6)).frame ELSE <<>>

\* C30: the messages the client sends reach the upstream writer in the order
\* sent, also while earlier writes are pending or have failed: the k-th
\* write is given the whole frame of the k-th message in one call, and the
\* frames that reach the socket are, in order, those whose write succeeded;
\* a failed write does not keep later messages from being handed to the
\* writer.
C30_OutboundOrder ==
  /\ Len(outbound.handed) <= Len(outbound.messages)
  /\ Len(outbound.settled) = Len(outbound.handed)
  /\ \A k \in 1..Len(outbound.handed) :
       outbound.handed[k] = FrameOf(outbound.messages[k], outbound.handed[k])
  /\ outbound.written =
       SelectSeq([k \in 1..Len(outbound.handed) |->
                    IF outbound.settled[k] = "ok" THEN outbound.handed[k] ELSE <<>>],
                 LAMBDA f : f # <<>>)
  /\ (\E k \in 1..Len(outbound.settled) : outbound.settled[k] = "error")
       /\ Len(outbound.handed) < Len(outbound.messages)
       /\ ~outbound.wsClosed
       => ENABLED OnMessage

\* "hi" then "!": the write of the first frame failed while the second was
\* pending behind it, both were handed to the writer in order
C30_Witness ==
  /\ outbound.messages = << <<104, 105>>, <<33>> >>
  /\ Len(outbound.handed) = 2
  /\ outbound.handed[1] = PackTextFrame(<<104, 105>>, <<1, 2, 3, 4>>).frame
  /\ outbound.handed[2] = PackTextFrame(<<33>>, <<170, 85, 240, 15>>).frame
  /\ outbound.settled = <<"error", "pending">>
  /\ ~framesReader.socketClosed /\ ~outbound.wsClosed

---------------------------------------------------------------------------
(* Claims about error handling and fallback (specification Spec) *)

\* C23: every transport method returns a response for every failure inside
\* it: once a transport method has been invoked, the request is never
\* answered by the catch of handleRequest.
C23_TransportBoundary ==
  (pc = "done" /\ attempts # <<>>) => response.by # "controller"

\* the positions at which a step of the controller or of a transport is
\* possible: the start of handleRequest and the awaits of the transports
AwaitLabels ==
  {"start", "sock_connect", "sock_head", "sock_body", "sock_resp", "sock_catch",
   "fetch_wait", "fetchdns_wait", "ws_connect", "ws_handshake",
   "dns_body", "dns_socket", "dns_read", "dns_fallback", "dnsfb_wait"}

\* the statuses of the responses the gateway makes itself to report an error
ErrorStatuses == {400, 500, 501, 502}

\* C24: handleRequest never throws: every request, under every
\* configuration and every failure, ends with a response; an exception that
\* reaches the catch of handleRequest is answered with status 500 and the
\* body 'Error: ' followed by its message; every error response the gateway
\* makes itself has a status in {400, 500, 501, 502}.
C24_ControllerCatchAll ==
  /\ pc # "done" => (response = NoResponse /\ pc \in AwaitLabels)
  /\ pc = "done" =>
       /\ response # NoResponse
       /\ response.by # "upstream" =>
            response.status \in ErrorStatuses \cup {101, 200}
       /\ response.by = "controller" =>
            /\ response.status = 500
            /\ \/ response.text = <<"Error: ", "Invalid URL">>
               \/ response.text = <<"Error: ", "Invalid SOCKS address format">>
               \/ errs # <<>> /\ response.text = <<"Error: ">> \o MessageText(errs[Len(errs)])

\* the upstream refused the WebSocket handshake: the exception of
\* connectWebSocket reached the catch of handleRequest
C24_Witness ==
  /\ pc = "done" /\ response.by = "controller" /\ response.status = 500
  /\ cur.proxy = "Socks5"
  /\ Len(response.text) >= 2
  /\ response.text[1] = "Error: " /\ response.text[2] = "WebSocket handshake failed: "

\* handleDnsQuery was called on a transport that is not DoH or DoT, and has
\* returned
DnsOnOtherTransport ==
  /\ pc = "done" /\ attempts # <<>>
  /\ attempts[1].method = "handleDnsQuery"
  /\ attempts[1].proxy \notin {"DoH", "DoT"}

\* C25 as stated: handleDnsQuery on a transport that is not a DNS transport
\* (Socket, Fetch, Socks5, ThirdParty, CloudProvider) returns 501 and
\* contacts no upstream.
C25_DnsUnsupported ==
  DnsOnOtherTransport => response.status = 501 /\ events = {}

\* C25 amended: handleDnsQuery returns 501 on Socks5, ThirdParty and
\* CloudProvider and 400 on Socket, in both cases without contacting an
\* upstream; on Fetch it forwards the query to the DoH server with one fetch
\* and returns what the server answers, or 502 when the fetch fails.
C25_DnsOnOtherTransports ==
  DnsOnOtherTransport =>
    LET kind == attempts[1].proxy
    IN /\ Len(PathParts(req)) >= 3 /\ PathParts(req)[2] = <<"dns">>
       /\ PathParts(req)[1] = config.AUTH_TOKEN
       /\ PathParts(req)[3] \notin { <<"doh">>, <<"dot">> }
       /\ Len(attempts) = 1
       /\ kind \in {"Socks5", "ThirdParty", "CloudProvider"} =>
            response.status = 501 /\ response.by = kind /\ events = {}
       /\ kind = "Socket" => response.status = 400 /\ response.by = kind /\ events = {}
       /\ kind = "Fetch" =>
            /\ events = {Event("Fetch", "primary", "fetch", DOH_SERVER, FetchDnsHeaders(req), req.body)}
            /\ response.by = "upstream" \/ response.status = 502

\* /tok/dns/other under PROXY_STRATEGY=socks5 was answered 501 by the
\* Socks5 transport
C25_Witness ==
  /\ DnsOnOtherTransport /\ attempts[1].proxy = "Socks5"
  /\ req.pathname = <<"/", "tok", "/", "dns", "/", "other">>
  /\ response.status = 501 /\ events = {}

\* the transport handleRequest constructs for the request
PrimaryKind ==
  LET parts == PathParts(req)
  IN CreateProxy([config EXCEPT !.PROXY_STRATEGY =
                    IF IsDnsRequest(parts, config) THEN DnsStrategy(parts[3], config)
                    ELSE config.PROXY_STRATEGY])

\* C26: with a SOCKS5_ADDRESS that is not of the form [user:pass@]host:port
\* the client receives a 400 response, when Socks5 is the primary strategy
\* and when it is the fallback selected after a network-restricted error of
\* the Socket transport.
C26_SocksMisconfigured ==
  (/\ pc = "done"
   /\ ParseSocks5AddressThrows(config.SOCKS5_ADDRESS)
   /\ PrimaryKind = "Socks5" \/ fallback = "Socks5")
  => response.status = 400

\* C27: once parseResponse has parsed the upstream headers and returned the
\* response, a later error (a rejected read, the end of the stream inside a
\* chunk) only errors or closes the body stream: no transport method is
\* invoked again, nothing more is sent upstream and the response stands,
\* whatever the message of the error.
C27_NoPartialRetry ==
  [][bodyStream.state # "none" =>
       /\ bodyStream'.state \in {"closed", "errored"}
       /\ pc' = "done"
       /\ attempts' = attempts /\ events' = events /\ fallback' = fallback
       /\ response' = response]_vars

\* the Socket transport had returned the upstream's response when its body
\* stream failed with a network-restricted error: no fallback was started
C27_Witness ==
  /\ bodyStream.state = "errored"
  /\ bodyStream.error = Error(<<"Stream was cancelled">>)
  /\ IsCloudflareNetworkError(bodyStream.error)
  /\ cur.proxy = "Socket" /\ cur.body # <<>>
  /\ Len(attempts) = 1 /\ fallback = "none"
  /\ pc = "done" /\ response = Upstream(200, "primary")

\* something was done in the role of a fallback: a transport method was
\* invoked, or a request went upstream
FallbackStarted ==
  \/ \E i \in 1..Len(attempts) : attempts[i].role = "fallback"
  \/ \E ev \in events : ev.role = "fallback"

\* the request went down the HTTP path of the Socket transport
SocketHttpPath ==
  /\ attempts # <<>>
  /\ attempts[1].proxy = "Socket" /\ attempts[1].method = "connect"
  /\ ~IsWebSocket(req)

\* C29 as stated: a request causes at most two transport attempts; a
\* fallback is started only by the HTTP path of the Socket transport; the
\* fallback transport is never Socket.
C29_FallbackOnlyFromSocket ==
  /\ Len(attempts) <= 2
  /\ FallbackStarted => SocketHttpPath
  /\ \A i \in 2..Len(attempts) : attempts[i].proxy # "Socket"

\* C29 amended: a request causes at most two transport attempts, the
\* primary one and one fallback.  A fallback is started only by the HTTP
\* path of the Socket transport, after a network-restricted error, or by
\* the DNS handler of the DoH and DoT transports (DoH invokes Fetch's
\* handleDnsQuery, DoT fetches the DoH server itself).  The fallback
\* transport is never Socket, and whatever the fallback attempt ends with,
\* also an error with a network-restricted message, is what the client
\* receives.
C29_OneFallback ==
  /\ Len(attempts) <= 2
  /\ \A i \in 2..Len(attempts) : attempts[i].proxy # "Socket" /\ attempts[i].role = "fallback"
  /\ FallbackStarted =>
       \/ /\ SocketHttpPath
          /\ errs # <<>> /\ IsCloudflareNetworkError(errs[1])
          /\ fallback \in {"Fetch", "Socks5", "ThirdParty", "CloudProvider"}
          /\ Len(attempts) = 2 /\ attempts[2].method = "connectHttp"
          /\ attempts[2].proxy = fallback
       \/ /\ attempts[1].proxy = "DoH"
          /\ Len(attempts) = 2
          /\ attempts[2].proxy = "Fetch" /\ attempts[2].method = "handleDnsQuery"
       \/ /\ attempts[1].proxy = "DoT"
          /\ Len(attempts) = 1
  /\ (pc = "done" /\ FallbackStarted) =>
       response.via = "fallback" \/ response.by = "controller"
  /\ (pc = "done" /\ FallbackStarted /\ SocketHttpPath /\ Len(errs) >= 2) =>
       /\ response.status = 500
       /\ response.text = <<"Error ", "socks5 connection", ": ">> \o MessageText(errs[2])

\* the Socket attempt failed with a network-restricted error, the Socks5
\* fallback failed with one as well: its error went to the client and no
\* third attempt was made
C29_Witness ==
  /\ pc = "done" /\ Len(attempts) = 2
  /\ attempts[1].proxy = "Socket" /\ attempts[2].proxy = "Socks5"
  /\ Len(errs) = 2
  /\ IsCloudflareNetworkError(errs[1]) /\ IsCloudflareNetworkError(errs[2])
  /\ response.status = 500 /\ response.via = "fallback"

---------------------------------------------------------------------------
(* Requests handled at the same time (specification SpecIsolation)         *)
(* heap holds the configuration objects: Head(heap) is the static          *)
(* ConfigManager.DEFAULT_CONFIG, an object spread appends a new object.    *)
(* A task holds references (indices into heap), 0 for none.  Steps of      *)
(* different requests interleave at the awaits of handleRequest.           *)

\* the most requests in flight at once
MaxRequests == 2

\* the keys of env that are also keys of config override the defaults
Merged(defaults, env) ==
  [key \in DOMAIN defaults |-> IF key \in DOMAIN env THEN env[key] ELSE defaults[key]]

\* an update that writes the environment into DEFAULT_CONFIG itself
UpdateConfigFromEnvInPlace(h, env) ==
  [heap |-> [h EXCEPT ![1] = Merged(Head(h), env)], ref |-> 1]

\* ConfigManager.updateConfigFromEnv: const config = { ...this.DEFAULT_CONFIG },
\* then config[key] = env[key] for the keys env has
UpdateConfigFromEnv(h, env) ==
  [heap |-> Append(h, Merged(Head(h), env)), ref |-> Len(h) + 1]

\* { ...config, PROXY_STRATEGY: strategy }: a new object
SpreadWithStrategy(h, ref, strategy) ==
  [heap |-> Append(h, [h[ref] EXCEPT !.PROXY_STRATEGY = strategy]), ref |-> Len(h) + 1]

\* a request: its environment, the DNS type of its path ("none" for a
\* forwarding request), whether its Socket attempt meets a network-restricted error
TaskCase(env, dns, fails) ==
  [env |-> env, dns |-> dns, fails |-> fails, pc |-> "start",
   config |-> 0, proxyConfig |-> 0, fallbackConfig |-> 0, kind |-> "none", fallbackKind |-> "none"]

TaskCases ==
  { TaskCase([DEBUG_MODE |-> "false"], "none", TRUE),
    TaskCase([PROXY_STRATEGY |-> "fetch"], "doh", FALSE),
    TaskCase([PROXY_STRATEGY |-> "socks5", SOCKS5_ADDRESS |-> Socks5Ok], "other", FALSE),
    TaskCase([FALLBACK_PROXY_STRATEGY |-> "socks5", SOCKS5_ADDRESS |-> Socks5Ok], "none", TRUE),
    TaskCase([PROXY_STRATEGY |-> "socket", FALLBACK_PROXY_STRATEGY |-> "thirdparty",
              THIRD_PARTY_PROXY_URL |-> ProxyUrlOk], "dot", FALSE) }

\* ShadowProxy.handleRequest of request i up to its first await: the
\* configuration is made, overridden for a DNS request, and the transport
\* constructed on it
IsoHandleRequest(i) ==
  /\ tasks[i].pc = "start"
  /\ LET t == tasks[i]
         u == UpdateConfigFromEnv(heap, t.env)
         d == IF t.dns = "none" THEN u
              ELSE SpreadWithStrategy(u.heap, u.ref, DnsStrategy(<<t.dns>>, u.heap[u.ref]))
     IN /\ heap' = d.heap
        /\ tasks' = [tasks EXCEPT ![i] =
             [t EXCEPT !.pc = "await", !.config = u.ref, !.proxyConfig = d.ref,
                       !.kind = CreateProxy(d.heap[d.ref])]]
  /\ UNCHANGED <<ctlVars, urlVars, frameVars, httpVars, wireVars>>

\* the transport's method settles; in the catch of SocketProxy.connectHttp
\* the fallback configuration is spread from this.config and the fallback
\* transport constructed on it
IsoSettle(i) ==
  /\ tasks[i].pc = "await"
  /\ LET t == tasks[i]
         own == heap[t.proxyConfig]
         fallbackStrategy == IF own.FALLBACK_PROXY_STRATEGY = "" THEN "fetch"
                             ELSE own.FALLBACK_PROXY_STRATEGY
         f == SpreadWithStrategy(heap, t.proxyConfig, fallbackStrategy)
     IN IF t.kind = "Socket" /\ t.dns = "none" /\ t.fails
        THEN /\ heap' = f.heap
             /\ tasks' = [tasks EXCEPT ![i] =
                  [t EXCEPT !.pc = "fallback", !.fallbackConfig = f.ref,
                            !.fallbackKind = FallbackProxy(own)]]
        ELSE /\ tasks' = [tasks EXCEPT ![i] = [t EXCEPT !.pc = "done"]]
             /\ UNCHANGED heap
  /\ UNCHANGED <<ctlVars, urlVars, frameVars, httpVars, wireVars>>

\* the fallback transport's connectHttp settles
IsoFallbackSettle(i) ==
  /\ tasks[i].pc = "fallback"
  /\ tasks' = [tasks EXCEPT ![i] = [@ EXCEPT !.pc = "done"]]
  /\ UNCHANGED <<heap, ctlVars, urlVars, frameVars, httpVars, wireVars>>

InitIsolation ==
  /\ heap = <<DEFAULT_CONFIG>>
  /\ tasks \in [1..MaxRequests -> TaskCases]
  /\ CtlIdle /\ UrlIdle /\ FrameIdle /\ HttpIdle /\ WireIdle

NextIsolation ==
  \/ \E i \in 1..MaxRequests : IsoHandleRequest(i)
  \/ \E i \in 1..MaxRequests : IsoSettle(i)
  \/ \E i \in 1..MaxRequests : IsoFallbackSettle(i)

SpecIsolation == InitIsolation /\ [][NextIsolation]_vars

\* the objects request i holds
Held(i) == {tasks[i].config, tasks[i].proxyConfig, tasks[i].fallbackConfig} \ {0}

\* what request i works with when it is handled alone
AloneConfig(i) == Merged(DEFAULT_CONFIG, tasks[i].env)
AloneProxyConfig(i) ==
  IF tasks[i].dns = "none" THEN AloneConfig(i)
  ELSE [AloneConfig(i) EXCEPT !.PROXY_STRATEGY = DnsStrategy(<<tasks[i].dns>>, AloneConfig(i))]

\* C28: under any interleaving of requests handled at the same time no
\* request changes what another observes: DEFAULT_CONFIG is never modified;
\* every request holds configuration objects of its own, with the content
\* it would have if the request were handled alone; the strategy override
\* made for a DNS request or for a fallback is in an object of that
\* request only, and the transports chosen are those of the request alone.
C28_RequestIsolation ==
  /\ Head(heap) = DEFAULT_CONFIG
  /\ \A i \in 1..MaxRequests :
       /\ 1 \notin Held(i)
       /\ \A j \in 1..MaxRequests : i # j => Held(i) \cap Held(j) = {}
       /\ tasks[i].pc # "start" =>
            /\ heap[tasks[i].config] = AloneConfig(i)
            /\ heap[tasks[i].proxyConfig] = AloneProxyConfig(i)
            /\ tasks[i].kind = CreateProxy(AloneProxyConfig(i))
            /\ tasks[i].dns # "none" => tasks[i].proxyConfig # tasks[i].config
       /\ tasks[i].fallbackConfig # 0 =>
            /\ tasks[i].fallbackKind = FallbackProxy(AloneConfig(i))
            /\ heap[tasks[i].fallbackConfig] =
                 [AloneConfig(i) EXCEPT !.PROXY_STRATEGY =
                    IF AloneConfig(i).FALLBACK_PROXY_STRATEGY = "" THEN "fetch"
                    ELSE AloneConfig(i).FALLBACK_PROXY_STRATEGY]

\* a DNS request overridden to doh and a forwarding request that fell back
\* to socks5 were in flight together; each finished on its own objects
C28_Witness ==
  /\ tasks[1].pc = "done" /\ tasks[2].pc = "done"
  /\ tasks[1].dns = "doh" /\ tasks[1].kind = "DoH"
  /\ heap[tasks[1].config].PROXY_STRATEGY = "fetch"
  /\ tasks[2].kind = "Socket" /\ tasks[2].fallbackKind = "Socks5"
  /\ tasks[2].config < tasks[1].config /\ tasks[1].config < tasks[2].fallbackConfig
  /\ Len(heap) = 5

---------------------------------------------------------------------------
(* Claims about the fragmentation context (specification SpecReader)       *)

RECURSIVE FramesOn(_)
\* the complete frames that the bytes w hold, in order, each with its FIN
\* bit, its opcode and its unmasked payload
FramesOn(w) ==
  IF Len(w) < 2 THEN <<>>
  ELSE LET len7 == w[2] % 128
           masked == w[2] >= 128
           lenEnd == IF len7 = 126 THEN 4 ELSE 2
           head == IF masked THEN lenEnd + 4 ELSE lenEnd
       IN IF len7 = 127 \/ Len(w) < head THEN <<>>
          ELSE LET len == IF len7 = 126 THEN w[3] * 256 + w[4] ELSE len7
                   raw == SubSeq(w, head + 1, head + len)
               IN IF Len(w) < head + len THEN <<>>
                  ELSE << Frame(w[1] \div 128, w[1] % 16,
                                IF masked THEN Unmask(raw, SubSeq(w, lenEnd + 1, lenEnd + 4)) ELSE raw) >>
                       \o FramesOn(SubSeq(w, head + len + 1, Len(w)))

\* the frames the reader has taken out of its buffer so far
FramesTaken ==
  FramesOn(SubSeq(inbound.wire, 1, inbound.sent - Len(framesReader.buffer)))

\* after the first n frames of fs a FIN=0 non-continuation frame is the
\* latest frame or has only FIN=0 frames behind it
ContextOpen(fs, n) ==
  \E i \in 1..n : /\ fs[i].fin = 0 /\ fs[i].opcode # 0
                  /\ \A j \in (i + 1)..n : fs[j].fin = 0

\* the latest FIN=0 non-continuation frame among the first n frames
ContextStart(fs, n) ==
  CHOOSE i \in 1..n : /\ fs[i].fin = 0 /\ fs[i].opcode # 0
                      /\ \A j \in (i + 1)..n : ~(fs[j].fin = 0 /\ fs[j].opcode # 0)

RECURSIVE PayloadsFrom(_, _, _)
PayloadsFrom(fs, i, n) ==
  IF i > n THEN <<>> ELSE fs[i].payload \o PayloadsFrom(fs, i + 1, n)

\* frame n of fs is a continuation frame that finds no context open
Orphan(fs, n) == fs[n].opcode = 0 /\ ~ContextOpen(fs, n - 1)

RECURSIVE Delivered(_, _)
\* what the first n frames of fs make nextFrame return: a FIN=1
\* non-continuation frame itself, a FIN=1 continuation frame the message it
\* completes, any FIN=0 frame nothing
Delivered(fs, n) ==
  IF n = 0 THEN <<>>
  ELSE Delivered(fs, n - 1) \o
       (IF fs[n].fin = 0 \/ Orphan(fs, n) THEN <<>>
        ELSE IF fs[n].opcode # 0 THEN << Frame(1, fs[n].opcode, fs[n].payload) >>
        ELSE << Frame(1, fs[ContextStart(fs, n - 1)].opcode,
                      PayloadsFrom(fs, ContextStart(fs, n - 1), n)) >>)

ContinuationWithoutInitiation == <<"Received continuation frame without initiation">>

\* C31: a non-continuation frame with FIN=0 replaces any open fragmentation
\* context by a new one and delivers nothing; a non-continuation frame with
\* FIN=1 (data, ping or close) that arrives while a context is open discards
\* the context and is itself returned; a continuation frame that finds no
\* context open raises 'Received continuation frame without initiation'.
\* So the context is non-empty exactly between a FIN=0 non-continuation
\* frame and the next FIN=1 frame.
C31_FragmentationContext ==
  framesReader # <<>> =>
    LET fs == FramesTaken
        n == Len(fs)
    IN /\ (framesReader.fragmentedPayload # <<>>) <=> ContextOpen(fs, n)
       /\ (framesReader.fragmentedOpcode # NoOpcode) <=> ContextOpen(fs, n)
       /\ ContextOpen(fs, n) =>
            /\ framesReader.fragmentedOpcode = fs[ContextStart(fs, n)].opcode
            /\ framesReader.fragmentedPayload = << PayloadsFrom(fs, ContextStart(fs, n), n) >>
       /\ framesReader.returned = Delivered(fs, n)
       /\ \A k \in 1..n : Orphan(fs, k) =>
            /\ k = n /\ framesReader.pc = "failed"
            /\ framesReader.error = ContinuationWithoutInitiation
       /\ framesReader.error = ContinuationWithoutInitiation => (n > 0 /\ Orphan(fs, n))

\* a ping arrived while the message "h" was open: the ping was returned, the
\* context was dropped, and the continuation frame behind it was refused
C31_Witness ==
  /\ inbound.kind = "restart" /\ inbound.op = 9
  /\ framesReader.returned = << Frame(1, 9, <<105>>) >>
  /\ framesReader.fragmentedPayload = <<>>
  /\ framesReader.pc = "failed"
  /\ framesReader.error = ContinuationWithoutInitiation

---------------------------------------------------------------------------
(* Claims about the end of a response body (specification SpecHttp)        *)

\* how many bytes of the wire after the head the parser has been given
BodySent == upstream.sent - (Len(upstream.wire) - Len(WireBody))

\* the bytes the first j chunks take on the wire, size lines and CRLFs included
ChunksLength(j) == Len(EncodeChunks(SubSeq(upstream.payloads, 1, j))) - Len(EncodeChunks(<<>>))

\* upstream has sent the size line of chunk j + 1, CRLF included, but not
\* all of that chunk's payload and trailing CRLF
MidChunk(j) ==
  /\ j \in 0..(Len(upstream.payloads) - 1)
  /\ ChunksLength(j) + Len(Digits16(Len(upstream.payloads[j + 1]))) + 2 <= BodySent
  /\ BodySent < ChunksLength(j + 1)

UnexpectedEof == <<"Unexpected EOF in chunked encoding">>

\* C32: in chunked mode, when upstream reaches EOF after a chunk-size line
\* was read and before that chunk's payload and trailing CRLF are complete,
\* the body stream is errored with 'Unexpected EOF in chunked encoding'
\* after the complete earlier chunks were delivered, and is not closed; the
\* stream is errored in no other case.
C32_EofMidChunk ==
  /\ (upstream.kind = "chunked" /\ upstream.done) =>
       \A j \in 0..Len(upstream.payloads) : MidChunk(j) =>
         /\ parser.pc = "errored"
         /\ parser.error = UnexpectedEof
         /\ parser.body = Concat(SubSeq(upstream.payloads, 1, j))
  /\ (parser # <<>> /\ parser.pc = "errored") =>
       /\ upstream.kind \in {"chunked", "badsize"} /\ upstream.done
       /\ parser.error = UnexpectedEof
       /\ \E j \in 0..Len(upstream.payloads) : MidChunk(j)

\* upstream closed inside the second chunk, of 16 bytes; the first chunk had
\* been delivered
C32_Witness ==
  /\ upstream.kind = "chunked" /\ upstream.done
  /\ upstream.payloads = << <<"x">>, [i \in 1..16 |-> "m"] >>
  /\ MidChunk(1)
  /\ parser.pc = "errored"
  /\ parser.error = UnexpectedEof
  /\ parser.body = <<"x">>

\* the zero-size chunk line, CRLF included, has been sent
LastChunkSent == BodySent >= ChunksLength(Len(upstream.payloads)) + 3

\* C33: a body stream is closed normally only when the body is complete for
\* its transfer mode: in chunked mode after the zero-size chunk was read, in
\* fixed-length mode after content-length bytes were delivered; an upstream
\* EOF before that never gives a normally closed, truncated body.
C33_NoSilentTruncation ==
  (parser # <<>> /\ parser.pc = "closed") =>
    /\ upstream.kind = "chunked" => LastChunkSent
    /\ upstream.kind = "fixed" => Len(parser.body) >= upstream.n

---------------------------------------------------------------------------
(* readUntilDoubleCRLF, the check of the handshake reply and the start of   *)
(* the relay (specification SpecUpgrade)                                    *)
(* The upstream bytes are those of the reply to the handshake request,     *)
(* in ASCII, and of the frames the server sends behind it.  While the      *)
(* reply is read, framesReader holds the text read so far.                 *)

\* "HTTP/1.1 " and CR LF CR LF in ASCII
AsciiHttp == <<72, 84, 84, 80, 47, 49, 46, 49, 32>>
AsciiEnd == <<13, 10, 13, 10>>
\* "101"
Ascii101 == <<49, 48, 49>>
\* "Switching Protocols"
AsciiSwitchingProtocols ==
  <<83, 119, 105, 116, 99, 104, 105, 110, 103, 32, 80, 114, 111, 116, 111, 99, 111, 108, 115>>
\* "403 Forbidden"
Ascii403 == <<52, 48, 51, 32, 70, 111, 114, 98, 105, 100, 100, 101, 110>>

\* TextDecoder.decode(value, { stream: true }) on ASCII bytes and on bytes
\* 0x80..0xBF that follow no lead byte: each of the latter becomes U+FFFD
Decode(value) == [i \in 1..Len(value) |-> IF value[i] >= 128 THEN 65533 ELSE value[i]]

\* handshakeResp.includes("101") && handshakeResp.includes("Switching Protocols")
\* on the decoded characters
HandshakeAcceptedText(respText) ==
  Includes(respText, Ascii101) /\ Includes(respText, AsciiSwitchingProtocols)

UpgradeStart == [pc |-> "handshake", respText |-> <<>>]

\* connectWebSocket once readUntilDoubleCRLF has returned respText: a throw,
\* or relayWebSocketFrames, whose task creates a SocketFramesReader with an
\* empty buffer and goes to its first read
HandshakeChecked(respText) ==
  IF HandshakeAcceptedText(respText)
  THEN ReaderStart
  ELSE [ReaderStart EXCEPT !.pc = "thrown",
                           !.error = <<"WebSocket handshake failed: ">>]

\* readUntilDoubleCRLF: one reader.read().  A value is decoded and appended
\* to respText whole; the loop ends when respText includes CRLF CRLF or the
\* read resolved with done; a rejected read is thrown out of connectWebSocket
ReadUntilDoubleCRLF ==
  /\ framesReader # <<>> /\ framesReader.pc = "handshake" /\ ~inbound.done
  /\ \/ \E k \in 1..(Len(inbound.wire) - inbound.sent) :
          LET respText == framesReader.respText
                            \o Decode(SubSeq(inbound.wire, inbound.sent + 1, inbound.sent + k))
          IN /\ inbound' = [inbound EXCEPT !.sent = @ + k]
             /\ framesReader' = IF Includes(respText, AsciiEnd)
                                THEN HandshakeChecked(respText)
                                ELSE [framesReader EXCEPT !.respText = respText]
     \/ /\ inbound' = [inbound EXCEPT !.done = TRUE]
        /\ framesReader' = HandshakeChecked(framesReader.respText)
     \/ /\ inbound' = [inbound EXCEPT !.done = TRUE]
        /\ framesReader' = [ReaderStart EXCEPT !.pc = "thrown",
                                               !.error = <<"Network connection lost.">>]
  /\ UNCHANGED <<outbound, ctlVars, urlVars, frameVars, httpVars, socksVars, dotVars, isoVars>>

\* an ensureBuffer whose read stays pending once the stream has ended
ReaderReadAtEndWaits ==
  /\ framesReader # <<>> /\ framesReader.pc = "reading" /\ inbound.done
  /\ UNCHANGED vars

\* ensureBuffer when the stream had ended while the reply was read: the read
\* resolves with done again
ReaderReadAtEnd ==
  /\ framesReader # <<>> /\ framesReader.pc = "reading" /\ inbound.done
  /\ framesReader' = RelayFinally(framesReader, "ended")
  /\ UNCHANGED <<inbound, outbound, ctlVars, urlVars, frameVars, httpVars, socksVars, dotVars, isoVars>>

\* what the server sends behind its reply: nothing, a text frame, a masked
\* text frame, a message in two fragments, a ping and a text frame
FramesBehind ==
  { <<>>,
    WireFrame(1, 1, <<104, 105>>, <<>>, "short"),
    WireFrame(1, 1, <<104, 105>>, <<1, 2, 3, 4>>, "short"),
    WireFrame(0, 1, <<104>>, <<>>, "short") \o WireFrame(1, 0, <<105>>, <<>>, "short"),
    WireFrame(1, 9, <<>>, <<>>, "short") \o WireFrame(1, 2, <<33>>, <<>>, "short") }

\* a 101 reply with frames behind it, and a 403 reply
UpgradeCases ==
  { InboundCase("upgrade", 1, <<>>,
      AsciiHttp \o Ascii101 \o <<32>> \o AsciiSwitchingProtocols \o AsciiEnd \o fs) :
      fs \in FramesBehind }
  \cup { InboundCase("refused", 1, <<>>, AsciiHttp \o Ascii403 \o AsciiEnd) }

InitUpgrade ==
  /\ inbound \in UpgradeCases
  /\ framesReader = UpgradeStart
  /\ outbound = NoClient
  /\ CtlIdle /\ UrlIdle /\ FrameIdle /\ HttpIdle /\ SocksIdle /\ DotIdle /\ IsoIdle

NextUpgrade ==
  \/ ReadUntilDoubleCRLF
  \/ ReaderRead
  \/ ReaderReadAtEnd

SpecUpgrade == InitUpgrade /\ [][NextUpgrade]_vars

\* the frames the server sent behind the end of its reply
FramesBehindReply ==
  FramesOn(SubSeq(inbound.wire, IndexOf(inbound.wire, AsciiEnd) + 4, Len(inbound.wire)))

\* C34: no upstream byte is lost between the handshake and the frame relay:
\* once the relay has read everything the server sent behind the CRLF CRLF
\* of its 101 reply, every frame sent there was returned by the frame reader
\* and its data delivered to the client, whichever read brought the bytes.
C34_NoByteLost ==
  ( /\ inbound.kind = "upgrade" /\ framesReader.pc = "reading"
    /\ inbound.sent = Len(inbound.wire) ) =>
  /\ framesReader.returned = Delivered(FramesBehindReply, Len(FramesBehindReply))
  /\ framesReader.sent = DataPayloads(framesReader.returned)

---------------------------------------------------------------------------
(* Claims about the SOCKS5 method selection (specification SpecSocks)      *)

\* the method-selection reply is a whole message that selects method m
SelectsMethod(e, m) ==
  IsRead(e, "method") /\ Len(e.bytes) >= 2 /\ FirstTwo(e.bytes) = <<5, m>>

\* C35: the CONNECT request is written only if the method-selection reply is
\* a complete message 05 00, or is 05 02 followed by a successful
\* username/password exchange; any other reply (another method, a reply
\* shorter than two bytes, EOF) ends the negotiation in the error state with
\* no CONNECT sent; with method 0x02 and no configured credentials no auth
\* message is sent.
C35_MethodGating ==
  LET log == socks.log
      noCredentials == socksCase.username = <<>> \/ socksCase.password = <<>>
  IN /\ \A i \in DOMAIN log :
          /\ IsWrite(log[i], "connect") =>
               \/ SelectsMethod(log[2], 0)
               \/ /\ SelectsMethod(log[2], 2)
                  /\ IsWrite(log[3], "auth")
                  /\ IsRead(log[4], "auth") /\ FirstTwo(log[4].bytes) = <<1, 0>>
          /\ (IsWrite(log[i], "auth") /\ noCredentials) => FALSE
     /\ (Len(log) >= 2 /\ ~SelectsMethod(log[2], 0) /\ ~SelectsMethod(log[2], 2)) =>
          /\ socks.pc = "failed"
          /\ \A i \in DOMAIN log : ~IsWrite(log[i], "connect")

---------------------------------------------------------------------------
(* Claims about transport encryption (specification Spec)                  *)

\* the request heads and WebSocket handshakes written to a raw stream
RawStreamWrites == {ev \in events : ev.op = "request" /\ ev.by \in {"Socket", "Socks5"}}

\* the socket a raw-stream write went to
StreamOf(ev) == {c \in events : c.op = "connect" /\ c.by = ev.by /\ c.role = ev.role}

SecureScheme(dst) == ParseUrl(dst).protocol \in { <<"https", ":">>, <<"wss", ":">> }

\* C36: on every raw-stream transport the encryption matches the destination
\* scheme: for an https or wss destination the HTTP request or WebSocket
\* handshake is written only to a TLS stream, whether it was opened directly
\* (Socket) or through the SOCKS5 server (Socks5, primary or fallback); for
\* http or ws the stream is plain.
C36_TransportEncryption ==
  \A ev \in RawStreamWrites :
    /\ StreamOf(ev) # {}
    /\ \A c \in StreamOf(ev) : c.secureTransport = "on" <=> SecureScheme(ev.to)

---------------------------------------------------------------------------
(* The socket exchange of DoHProxy.handleDnsQuery (specification           *)
(* SpecDohRaw)                                                             *)
(* responseBytes is dot.fullResponse.  The header lines of the request are *)
(* those of DoHHeaders; here the request is its request line, the empty    *)
(* line and the query.                                                     *)

\* "POST /dns-query HTTP/1.1" CR LF CR LF
AsciiPostLine ==
  <<80, 79, 83, 84, 32, 47, 100, 110, 115, 45, 113, 117, 101, 114, 121, 32>>
    \o SubSeq(AsciiHttp, 1, 8) \o AsciiEnd

\* fullRequest: the encoded head, then the query bytes
DohRequest(clientDnsQuery) == AsciiPostLine \o clientDnsQuery

\* the search for 13 10 13 10 and responseBytes.slice(separatorIndex + 4)
DohResponse(responseBytes) ==
  LET separatorIndex == IndexOf(responseBytes, AsciiEnd)
  IN IF separatorIndex = 0 THEN [thrown |-> TRUE, body |-> <<>>]
     ELSE [thrown |-> FALSE,
           body |-> SubSeq(responseBytes, separatorIndex + 4, Len(responseBytes))]

DohStart == [DotStart EXCEPT !.pc = "doh_query"]

\* await req.arrayBuffer()
DohReadQuery ==
  /\ dot # <<>> /\ dot.pc = "doh_query"
  /\ \/ dot' = [dot EXCEPT !.pc = "doh_write", !.clientDnsQuery = dotCase.query]
     \/ dot' = DotCatch(dot, <<"Network connection lost.">>)
  /\ UNCHANGED <<dotCase, ctlVars, urlVars, frameVars, httpVars, readerVars, socksVars, isoVars>>

\* connect(...) and await writer.write(fullRequest)
DohWrite ==
  /\ dot # <<>> /\ dot.pc = "doh_write"
  /\ \/ dot' = [dot EXCEPT !.pc = "doh_read", !.written = Append(@, DohRequest(dot.clientDnsQuery))]
     \/ dot' = DotCatch(dot, <<"proxy request failed">>)
  /\ UNCHANGED <<dotCase, ctlVars, urlVars, frameVars, httpVars, readerVars, socksVars, isoVars>>

\* one reader.read() of the loop; on done the body is cut out and returned
\* in a new Response, whose status is 200
DohRead ==
  /\ dot # <<>> /\ dot.pc = "doh_read" /\ ~dotCase.done
  /\ \/ \E k \in 1..(Len(dotCase.wire) - dotCase.sent) :
          /\ dotCase' = [dotCase EXCEPT !.sent = @ + k]
          /\ dot' = [dot EXCEPT !.fullResponse =
                       @ \o SubSeq(dotCase.wire, dotCase.sent + 1, dotCase.sent + k)]
     \/ /\ dotCase' = [dotCase EXCEPT !.done = TRUE]
        /\ LET r == DohResponse(dot.fullResponse)
           IN dot' = IF r.thrown
                     THEN DotCatch(dot, <<"Could not find HTTP header/body separator in response.">>)
                     ELSE [dot EXCEPT !.pc = "done",
                             !.response = [status |-> 200,
                                           contentType |-> <<"application/dns-message">>,
                                           body |-> r.body]]
     \/ /\ dotCase' = [dotCase EXCEPT !.done = TRUE]
        /\ dot' = DotCatch(dot, <<"Network connection lost.">>)
  /\ UNCHANGED <<ctlVars, urlVars, frameVars, httpVars, readerVars, socksVars, isoVars>>

\* status lines: "200 OK", "500 Error", "404 None"
Ascii200 == <<50, 48, 48, 32, 79, 75>>
Ascii500 == <<53, 48, 48, 32, 69, 114, 114, 111, 114>>
Ascii404 == <<52, 48, 52, 32, 78, 111, 110, 101>>

\* "<html>"
ErrorPage == <<60, 104, 116, 109, 108, 62>>

\* what the DoH server sends before it closes: a DNS message behind a 200
\* head, an error page behind a 500 or 404 head, a head alone, a reply
\* without the empty line, nothing
DohWires ==
  { AsciiHttp \o Ascii200 \o AsciiEnd \o DnsMessage(len, 7) : len \in {0, 12} }
  \cup { AsciiHttp \o st \o AsciiEnd \o ErrorPage : st \in {Ascii500, Ascii404} }
  \cup { AsciiHttp \o Ascii500 \o AsciiEnd, AsciiHttp \o Ascii200 \o <<13, 10>>, <<>> }

InitDohRaw ==
  /\ dotCase \in [query : {DnsMessage(len, 1) : len \in {0, 12}}, wire : DohWires,
                  sent : {0}, done : {FALSE}]
  /\ dot = DohStart
  /\ CtlIdle /\ UrlIdle /\ FrameIdle /\ HttpIdle /\ ReaderIdle /\ SocksIdle /\ IsoIdle

NextDohRaw ==
  \/ DohReadQuery
  \/ DohWrite
  \/ DohRead

SpecDohRaw == InitDohRaw /\ [][NextDohRaw]_vars

\* the reply on the wire starts with "HTTP/1.1 2"
UpstreamSucceeded ==
  /\ Len(dotCase.wire) >= 12
  /\ SubSeq(dotCase.wire, 1, 9) = AsciiHttp
  /\ dotCase.wire[10] = 50

\* C37: DoH-Raw returns a 200 response of type application/dns-message only
\* when the upstream DoH server answered with a success status; an upstream
\* HTTP error reply is not handed to the client as a successful DNS message
\* whose body is everything after CRLF CRLF.
C37_DohRawStatus ==
  (dot # <<>> /\ dot.pc = "done" /\ dot.response.status = 200) => UpstreamSucceeded

---------------------------------------------------------------------------
(* The reading loops together, with every read resolved in the end         *)
(* (specification SpecParsersFair)                                         *)
(* Each action is the continuation of one awaited reader.read() (or of the *)
(* write before the first read).  Upstream sends finitely many bytes and   *)
(* then closes, so every pending read resolves: with some of the bytes     *)
(* still to come, with done, or with an error.  Weak fairness of the next- *)
(* state relation says no more than that.                                  *)

InitParsers ==
  \/ InitHttp
  \/ InitReader
  \/ InitUpgrade
  \/ InitDot
  \/ InitDohRaw

NextParsers ==
  \/ ReadHeaders
  \/ ReadChunkSize
  \/ ReadChunkData
  \/ ReadFixed
  \/ ReadUntilDoubleCRLF
  \/ ReaderRead
  \/ ReaderReadAtEnd
  \/ DotReadQuery
  \/ DotWrite
  \/ DotRead
  \/ DohReadQuery
  \/ DohWrite
  \/ DohRead

SpecParsersFair == InitParsers /\ [][NextParsers]_vars /\ WF_vars(NextParsers)

\* every loop that was started has reached its end: the body stream closed
\* or errored, or parseResponse threw; the relay task ran its finally block,
\* or connectWebSocket threw; the DNS reply was returned, or the catch block
\* took over
Terminated ==
  /\ parser # <<>> => parser.pc \in {"closed", "errored", "failed"}
  /\ framesReader # <<>> => framesReader.pc \in {"ended", "closed", "failed", "thrown"}
  /\ dot # <<>> => dot.pc \in {"done", "fallback"}

\* C38: for every finite upstream byte sequence followed by EOF, in any
\* segmentation across reads, each reading loop (the header search of
\* parseResponse, readChunks, the fixed-length loop, readUntilDoubleCRLF,
\* nextFrame and the relay loop, the read-to-EOF loops of DoT and DoH-Raw)
\* eventually reaches its end or an error state and stays there; none loops
\* forever or keeps waiting after EOF, also on a chunk-size line that is not
\* a number or a frame of length zero.
C38_ParserTermination == <>[]Terminated

\* readChunks met the size line "zz" behind the first chunk and ended; the
\* bytes behind it were not asked for
C38_Witness ==
  /\ upstream # <<>> /\ upstream.kind = "badsize" /\ ~upstream.done
  /\ parser.pc = "closed" /\ parser.body = <<"x">>
  /\ upstream.sent < Len(upstream.wire)

====
